---- MODULE Spec2Model ----
(***************************************************************************)
(* Walking mode of the walking engine (crates/walking_engine/src/mode/     *)
(* walking.rs): the constructor Walking::new with its step smoothing and   *)
(* the three transitions of `impl WalkTransition for Walking`.             *)
(*                                                                         *)
(* Lengths and angles are integers in a fixed unit.  A StepPlan is          *)
(* represented by its support side and by the smoothed step its end feet   *)
(* are derived from; a StepState by its plan and the time since its start. *)
(*                                                                         *)
(* Further components, each with a specification of its own: the           *)
(* CurrentMinimizer (crates/energy_optimization/src/current_minimizer.rs), *)
(* the JumpLeft motion node (crates/control/src/motion/jump_left.rs) and   *)
(* the BehaviorCycler (tools/behavior_simulator/src/cycler.rs), the ball    *)
(* interception of the behavior (control/src/behavior/intercept_ball.rs),  *)
(* the calibration corrections of twix                                     *)
(* (tools/twix/src/panels/camera_calibration/optimization.rs), the line    *)
(* drawing of its calibration panels                                       *)
(* (tools/twix/src/panels/camera_calibration/panel.rs), the camera matrix  *)
(* (crates/projection/src/camera_matrix.rs).                               *)
(***************************************************************************)
EXTENDS Integers, Sequences, FiniteSets, TLC

VARIABLES
    mode,        \* the Mode retained between cycles
    parameters,  \* context.parameters, fixed over a run
    last         \* between a transition and its tick: the request, the context
                 \* and the Mode the transition was applied to; where one
                 \* request is repeated every cycle: that request and the
                 \* number of support switches seen under it; after a call
                 \* of another component: the call, the object it was made
                 \* on and what it returned
VARIABLES
    minimizer,          \* the CurrentMinimizer
    jump_left,          \* the JumpLeft node
    motion_safe_exits,  \* the caller-owned table of safe exits
    own_database,       \* the Database handed to BehaviorCycler::cycle
    own_changed         \* the number of notifications issued on own_changed
VARIABLES
    motion_command,     \* what intercept_ball::execute returned last
    calibration,        \* the correction handles of a calibration panel and
                        \* the values the robot has sent for their paths
    panel,              \* a calibration panel: its user state and its lines
    camera_matrix       \* a CameraMatrix

vars ==
    <<mode, parameters, last,
      minimizer, jump_left, motion_safe_exits, own_database, own_changed,
      motion_command, calibration, panel, camera_matrix>>

\* the behavior, the projection and the calibration panels
tools == <<motion_command, calibration, panel, camera_matrix>>

\* the components other than the walking engine
nodes ==
    <<minimizer, jump_left, motion_safe_exits, own_database, own_changed, tools>>

----------------------------------------------------------------------------
(* Bounds of the model *)

\* requested forward lies in -MaxForward .. MaxForward
MaxForward == 2
\* requested left is 0 or MaxLeft: left is passed through unclamped
MaxLeft == 1
\* requested turn lies in -MaxTurn .. MaxTurn
MaxTurn == 2
\* max_forward_acceleration lies in 1 .. MaxAcceleration
MaxAcceleration == 1
\* max_step_duration, in cycles
MaxStepDuration == 2
\* kick strength lies in 1 .. MaxStrength
MaxStrength == 1

----------------------------------------------------------------------------
(* Value types *)

Side == {"Left", "Right"}

opposite(side) == IF side = "Left" THEN "Right" ELSE "Left"

KickVariant == {"Forward", "Turn", "Side"}

ZERO == [forward |-> 0, left |-> 0, turn |-> 0]

Requests ==
    [forward : (-MaxForward)..MaxForward, left : {0, MaxLeft}, turn : (-MaxTurn)..MaxTurn]

\* forward_turn_reduction is a factor in halves (1 stands for 0.5), and
\* max_turn_acceleration is an even number of turn units, so that their
\* product is exact.
Parameters ==
    [max_forward_acceleration : 1..MaxAcceleration,
     max_turn_acceleration : {2},
     forward_turn_threshold : {1},
     forward_turn_reduction : {1},
     max_step_duration : {MaxStepDuration}]

\* The per-cycle Context: the parameters and the sensor-driven observations.
Contexts ==
    [parameters : {parameters}, support_switched : BOOLEAN, balance_lost : BOOLEAN]

abs(x) == IF x < 0 THEN -x ELSE x

\* f32::clamp
clamp(x, min, max) == IF x < min THEN min ELSE IF x > max THEN max ELSE x

----------------------------------------------------------------------------
(* Collaborators of Walking *)

StepPlan_new_from_request(context, step, support_side) ==
    [support_side |-> support_side, end_feet |-> step]

StepState_new(plan) == [plan |-> plan, time_since_start |-> 0]

is_support_switched(step, context) == context.support_switched

is_timeouted(step, params) == step.time_since_start > params.max_step_duration

should_catch(context, end_feet, support_side) == context.balance_lost

Stopping_new(context, support_side) ==
    [kind |-> "Stopping", support_side |-> support_side]

Catching_new(context, step, support_side) ==
    [kind |-> "Catching", step |-> step, support_side |-> support_side]

KickState_new(variant, kicking_side, strength) ==
    [variant |-> variant, side |-> kicking_side, strength |-> strength]

Kicking_new(context, kick, support_side) ==
    [kind |-> "Kicking", kick |-> kick, support_side |-> support_side]

step_tick(step, context) ==
    [step EXCEPT !.time_since_start = @ + 1]

----------------------------------------------------------------------------
(* Walking::new *)

\* forward bounds that are symmetric whatever the previous forward is
forward_bounds_symmetric(context, last_requested_step) ==
    <<-context.parameters.max_forward_acceleration,
      context.parameters.max_forward_acceleration>>

\* forward bounds that treat a previous forward of zero like a positive one
forward_bounds_zero_as_positive(context, last_requested_step) ==
    IF last_requested_step.forward >= 0
    THEN <<-last_requested_step.forward, context.parameters.max_forward_acceleration>>
    ELSE <<-context.parameters.max_forward_acceleration, -last_requested_step.forward>>

\* forward bounds with the positive and the negative case exchanged
forward_bounds_exchanged(context, last_requested_step) ==
    IF last_requested_step.forward < 0
    THEN <<-last_requested_step.forward, context.parameters.max_forward_acceleration>>
    ELSE IF last_requested_step.forward = 0
    THEN <<-context.parameters.max_forward_acceleration,
           context.parameters.max_forward_acceleration>>
    ELSE <<-context.parameters.max_forward_acceleration, -last_requested_step.forward>>

forward_bounds(context, last_requested_step) ==
    IF last_requested_step.forward > 0
    THEN <<-last_requested_step.forward, context.parameters.max_forward_acceleration>>
    ELSE IF last_requested_step.forward = 0
    THEN <<-context.parameters.max_forward_acceleration,
           context.parameters.max_forward_acceleration>>
    ELSE <<-context.parameters.max_forward_acceleration, -last_requested_step.forward>>

\* turn bound without the reduction at high forward speed
turn_acceleration_unreduced(context, last_requested_step) ==
    context.parameters.max_turn_acceleration

turn_acceleration(context, last_requested_step) ==
    IF abs(last_requested_step.forward) > context.parameters.forward_turn_threshold
    THEN (context.parameters.max_turn_acceleration
          * context.parameters.forward_turn_reduction) \div 2
    ELSE context.parameters.max_turn_acceleration

\* smoothing that keeps the previous left instead of passing the request on
smoothed_step_left_kept(context, requested_step, last_requested_step) ==
    LET fb == forward_bounds(context, last_requested_step)
        ta == turn_acceleration(context, last_requested_step)
    IN  [forward |-> last_requested_step.forward
                     + clamp(requested_step.forward - last_requested_step.forward,
                             fb[1], fb[2]),
         left |-> last_requested_step.left,
         turn |-> last_requested_step.turn
                  + clamp(requested_step.turn - last_requested_step.turn, -ta, ta)]

\* smoothing that clamps the forward change but lets the turn through
smoothed_step_turn_unclamped(context, requested_step, last_requested_step) ==
    LET fb == forward_bounds(context, last_requested_step)
    IN  [forward |-> last_requested_step.forward
                     + clamp(requested_step.forward - last_requested_step.forward,
                             fb[1], fb[2]),
         left |-> requested_step.left,
         turn |-> requested_step.turn]

\* smoothing whose turn overshoots the request by the turn bound
smoothed_step_turn_overshoots(context, requested_step, last_requested_step) ==
    LET fb == forward_bounds(context, last_requested_step)
        ta == turn_acceleration(context, last_requested_step)
    IN  [forward |-> last_requested_step.forward
                     + clamp(requested_step.forward - last_requested_step.forward,
                             fb[1], fb[2]),
         left |-> requested_step.left,
         turn |-> IF requested_step.turn > last_requested_step.turn
                  THEN last_requested_step.turn + ta
                  ELSE IF requested_step.turn < last_requested_step.turn
                  THEN last_requested_step.turn - ta
                  ELSE last_requested_step.turn]

\* smoothing whose forward always moves by the whole bound on the request's side
smoothed_step_forward_overshoots(context, requested_step, last_requested_step) ==
    LET fb == forward_bounds(context, last_requested_step)
        ta == turn_acceleration(context, last_requested_step)
    IN  [forward |-> IF requested_step.forward > last_requested_step.forward
                     THEN last_requested_step.forward + fb[2]
                     ELSE IF requested_step.forward < last_requested_step.forward
                     THEN last_requested_step.forward + fb[1]
                     ELSE last_requested_step.forward,
         left |-> requested_step.left,
         turn |-> last_requested_step.turn
                  + clamp(requested_step.turn - last_requested_step.turn, -ta, ta)]

smoothed_step(context, requested_step, last_requested_step) ==
    LET fb == forward_bounds(context, last_requested_step)
        ta == turn_acceleration(context, last_requested_step)
    IN  [forward |-> last_requested_step.forward
                     + clamp(requested_step.forward - last_requested_step.forward,
                             fb[1], fb[2]),
         left |-> requested_step.left,
         turn |-> last_requested_step.turn
                  + clamp(requested_step.turn - last_requested_step.turn, -ta, ta)]

\* f32::clamp asserts min <= max: one of the two clamps of Walking::new panics
clamp_panics(context, last_requested_step) ==
    LET fb == forward_bounds(context, last_requested_step)
        ta == turn_acceleration(context, last_requested_step)
    IN  fb[1] > fb[2] \/ -ta > ta

\* the cycle is aborted by a panic
Panicked == [kind |-> "Panicked"]

Walking_new(context, requested_step, support_side, last_requested_step) ==
    LET smoothed == smoothed_step(context, requested_step, last_requested_step)
        plan == StepPlan_new_from_request(context, smoothed, support_side)
    IN  IF clamp_panics(context, last_requested_step)
        THEN Panicked
        ELSE [kind |-> "Walking", step |-> StepState_new(plan),
              requested_step |-> smoothed]

----------------------------------------------------------------------------
(* impl WalkTransition for Walking *)

\* stand with the catch predicate evaluated first
stand_catch_first(self, context) ==
    LET current_step == self.step
    IN  IF should_catch(context, self.step.plan.end_feet, self.step.plan.support_side)
        THEN Catching_new(context, self.step, self.step.plan.support_side)
        ELSE IF is_support_switched(current_step, context)
                \/ is_timeouted(current_step, context.parameters)
        THEN Stopping_new(context, opposite(current_step.plan.support_side))
        ELSE self

stand(self, context) ==
    LET current_step == self.step
    IN  IF is_support_switched(current_step, context)
           \/ is_timeouted(current_step, context.parameters)
        THEN Stopping_new(context, opposite(current_step.plan.support_side))
        ELSE IF should_catch(context, self.step.plan.end_feet, self.step.plan.support_side)
        THEN Catching_new(context, self.step, self.step.plan.support_side)
        ELSE self

\* walk with the catch predicate evaluated before the support switch
walk_catch_first(self, context, requested_step) ==
    LET current_step == self.step
    IN  IF should_catch(context, self.step.plan.end_feet, self.step.plan.support_side)
        THEN Catching_new(context, self.step, self.step.plan.support_side)
        ELSE IF is_support_switched(current_step, context)
        THEN Walking_new(context, requested_step,
                         opposite(current_step.plan.support_side), self.requested_step)
        ELSE IF is_timeouted(current_step, context.parameters)
        THEN Walking_new(context, ZERO,
                         opposite(current_step.plan.support_side), self.requested_step)
        ELSE self

\* walk with the timeout evaluated before the catch predicate
walk_timeout_first(self, context, requested_step) ==
    LET current_step == self.step
    IN  IF is_support_switched(current_step, context)
        THEN Walking_new(context, requested_step,
                         opposite(current_step.plan.support_side), self.requested_step)
        ELSE IF is_timeouted(current_step, context.parameters)
        THEN Walking_new(context, ZERO,
                         opposite(current_step.plan.support_side), self.requested_step)
        ELSE IF should_catch(context, self.step.plan.end_feet, self.step.plan.support_side)
        THEN Catching_new(context, self.step, self.step.plan.support_side)
        ELSE self

\* walk whose new step after a support switch stays on the same support side
walk_switch_same_side(self, context, requested_step) ==
    LET current_step == self.step
    IN  IF is_support_switched(current_step, context)
        THEN Walking_new(context, requested_step,
                         current_step.plan.support_side, self.requested_step)
        ELSE IF should_catch(context, self.step.plan.end_feet, self.step.plan.support_side)
        THEN Catching_new(context, self.step, self.step.plan.support_side)
        ELSE IF is_timeouted(current_step, context.parameters)
        THEN Walking_new(context, ZERO,
                         opposite(current_step.plan.support_side), self.requested_step)
        ELSE self

\* walk whose timeout recovery restarts the step on the same support side
walk_timeout_same_side(self, context, requested_step) ==
    LET current_step == self.step
    IN  IF is_support_switched(current_step, context)
        THEN Walking_new(context, requested_step,
                         opposite(current_step.plan.support_side), self.requested_step)
        ELSE IF should_catch(context, self.step.plan.end_feet, self.step.plan.support_side)
        THEN Catching_new(context, self.step, self.step.plan.support_side)
        ELSE IF is_timeouted(current_step, context.parameters)
        THEN Walking_new(context, ZERO, current_step.plan.support_side,
                         self.requested_step)
        ELSE self

\* walk that smooths the request against zero instead of the previous step
walk_smooth_from_zero(self, context, requested_step) ==
    LET current_step == self.step
    IN  IF is_support_switched(current_step, context)
        THEN Walking_new(context, requested_step,
                         opposite(current_step.plan.support_side), ZERO)
        ELSE IF should_catch(context, self.step.plan.end_feet, self.step.plan.support_side)
        THEN Catching_new(context, self.step, self.step.plan.support_side)
        ELSE IF is_timeouted(current_step, context.parameters)
        THEN Walking_new(context, ZERO,
                         opposite(current_step.plan.support_side), self.requested_step)
        ELSE self

\* walk without the timeout branch
walk_without_timeout(self, context, requested_step) ==
    LET current_step == self.step
    IN  IF is_support_switched(current_step, context)
        THEN Walking_new(context, requested_step,
                         opposite(current_step.plan.support_side), self.requested_step)
        ELSE IF should_catch(context, self.step.plan.end_feet, self.step.plan.support_side)
        THEN Catching_new(context, self.step, self.step.plan.support_side)
        ELSE self

\* walk whose default branch stores the smoothed request of the cycle
walk_default_smooths(self, context, requested_step) ==
    LET current_step == self.step
    IN  IF is_support_switched(current_step, context)
        THEN Walking_new(context, requested_step,
                         opposite(current_step.plan.support_side), self.requested_step)
        ELSE IF should_catch(context, self.step.plan.end_feet, self.step.plan.support_side)
        THEN Catching_new(context, self.step, self.step.plan.support_side)
        ELSE IF is_timeouted(current_step, context.parameters)
        THEN Walking_new(context, ZERO,
                         opposite(current_step.plan.support_side), self.requested_step)
        ELSE [self EXCEPT !.requested_step =
                  smoothed_step(context, requested_step, self.requested_step)]

\* walk whose Catching takes the support side opposite to the interrupted step
walk_catch_opposite_side(self, context, requested_step) ==
    LET current_step == self.step
    IN  IF is_support_switched(current_step, context)
        THEN Walking_new(context, requested_step,
                         opposite(current_step.plan.support_side), self.requested_step)
        ELSE IF should_catch(context, self.step.plan.end_feet, self.step.plan.support_side)
        THEN Catching_new(context, self.step, opposite(self.step.plan.support_side))
        ELSE IF is_timeouted(current_step, context.parameters)
        THEN Walking_new(context, ZERO,
                         opposite(current_step.plan.support_side), self.requested_step)
        ELSE self

\* walk whose new step is smoothed against the request itself at a support
\* switch reached with a previous smoothed step different from the request
walk_switch_keeps_previous(self, context, requested_step) ==
    LET current_step == self.step
    IN  IF is_support_switched(current_step, context)
        THEN Walking_new(context, self.requested_step,
                         opposite(current_step.plan.support_side), self.requested_step)
        ELSE IF should_catch(context, self.step.plan.end_feet, self.step.plan.support_side)
        THEN Catching_new(context, self.step, self.step.plan.support_side)
        ELSE IF is_timeouted(current_step, context.parameters)
        THEN Walking_new(context, ZERO,
                         opposite(current_step.plan.support_side), self.requested_step)
        ELSE self

walk(self, context, requested_step) ==
    LET current_step == self.step
    IN  IF is_support_switched(current_step, context)
        THEN Walking_new(context, requested_step,
                         opposite(current_step.plan.support_side), self.requested_step)
        ELSE IF should_catch(context, self.step.plan.end_feet, self.step.plan.support_side)
        THEN Catching_new(context, self.step, self.step.plan.support_side)
        ELSE IF is_timeouted(current_step, context.parameters)
        THEN Walking_new(context, ZERO,
                         opposite(current_step.plan.support_side), self.requested_step)
        ELSE self

\* kick without the kicking-side test: every support switch begins the kick
kick_without_pre_step(self, context, variant, kicking_side, strength) ==
    LET current_step == self.step
        next_support_side == opposite(current_step.plan.support_side)
    IN  IF is_support_switched(current_step, context)
        THEN Kicking_new(context, KickState_new(variant, kicking_side, strength),
                         next_support_side)
        ELSE IF should_catch(context, self.step.plan.end_feet, self.step.plan.support_side)
        THEN Catching_new(context, self.step, self.step.plan.support_side)
        ELSE IF is_timeouted(current_step, context.parameters)
        THEN Walking_new(context, ZERO,
                         opposite(current_step.plan.support_side), self.requested_step)
        ELSE self

\* kick whose pre-step passes the previous smoothed step on as its request
kick_pre_step_keeps_request(self, context, variant, kicking_side, strength) ==
    LET current_step == self.step
        next_support_side == opposite(current_step.plan.support_side)
    IN  IF is_support_switched(current_step, context)
        THEN IF next_support_side # kicking_side
             THEN Walking_new(context, self.requested_step, next_support_side,
                              self.requested_step)
             ELSE Kicking_new(context, KickState_new(variant, kicking_side, strength),
                              next_support_side)
        ELSE IF should_catch(context, self.step.plan.end_feet, self.step.plan.support_side)
        THEN Catching_new(context, self.step, self.step.plan.support_side)
        ELSE IF is_timeouted(current_step, context.parameters)
        THEN Walking_new(context, ZERO,
                         opposite(current_step.plan.support_side), self.requested_step)
        ELSE self

\* kick with the timeout evaluated before the catch predicate
kick_timeout_first(self, context, variant, kicking_side, strength) ==
    LET current_step == self.step
        next_support_side == opposite(current_step.plan.support_side)
    IN  IF is_support_switched(current_step, context)
        THEN IF next_support_side # kicking_side
             THEN Walking_new(context, ZERO, next_support_side, self.requested_step)
             ELSE Kicking_new(context, KickState_new(variant, kicking_side, strength),
                              next_support_side)
        ELSE IF is_timeouted(current_step, context.parameters)
        THEN Walking_new(context, ZERO,
                         opposite(current_step.plan.support_side), self.requested_step)
        ELSE IF should_catch(context, self.step.plan.end_feet, self.step.plan.support_side)
        THEN Catching_new(context, self.step, self.step.plan.support_side)
        ELSE self

\* kick whose pre-step stays on the support side of the finished step
kick_pre_step_same_side(self, context, variant, kicking_side, strength) ==
    LET current_step == self.step
        next_support_side == opposite(current_step.plan.support_side)
    IN  IF is_support_switched(current_step, context)
        THEN IF next_support_side # kicking_side
             THEN Walking_new(context, ZERO, current_step.plan.support_side,
                              self.requested_step)
             ELSE Kicking_new(context, KickState_new(variant, kicking_side, strength),
                              next_support_side)
        ELSE IF should_catch(context, self.step.plan.end_feet, self.step.plan.support_side)
        THEN Catching_new(context, self.step, self.step.plan.support_side)
        ELSE IF is_timeouted(current_step, context.parameters)
        THEN Walking_new(context, ZERO,
                         opposite(current_step.plan.support_side), self.requested_step)
        ELSE self

kick(self, context, variant, kicking_side, strength) ==
    LET current_step == self.step
        next_support_side == opposite(current_step.plan.support_side)
    IN  IF is_support_switched(current_step, context)
        THEN IF next_support_side # kicking_side
             THEN Walking_new(context, ZERO, next_support_side, self.requested_step)
             ELSE Kicking_new(context, KickState_new(variant, kicking_side, strength),
                              next_support_side)
        ELSE IF should_catch(context, self.step.plan.end_feet, self.step.plan.support_side)
        THEN Catching_new(context, self.step, self.step.plan.support_side)
        ELSE IF is_timeouted(current_step, context.parameters)
        THEN Walking_new(context, ZERO,
                         opposite(current_step.plan.support_side), self.requested_step)
        ELSE self

\* Walking::tick; the other modes' ticks are outside this model
tick(self, context) ==
    IF self.kind = "Walking"
    THEN [self EXCEPT !.step = step_tick(self.step, context)]
    ELSE self

----------------------------------------------------------------------------
(* stand of the Stopping mode: a rest state that a stand request leaves    *)
(* only when the catch predicate fires.  Stopping has a support side and   *)
(* no step: the predicate is given the neutral step on that side, and so   *)
(* is the Catching it leads to.                                            *)

\* stand that lets the support side drift to the other foot
Stopping_stand_swaps_side(self, context) ==
    IF should_catch(context, ZERO, self.support_side)
    THEN Catching_new(context,
                      StepState_new(StepPlan_new_from_request(context, ZERO,
                                                              self.support_side)),
                      self.support_side)
    ELSE Stopping_new(context, opposite(self.support_side))

Stopping_stand(self, context) ==
    IF should_catch(context, ZERO, self.support_side)
    THEN Catching_new(context,
                      StepState_new(StepPlan_new_from_request(context, ZERO,
                                                              self.support_side)),
                      self.support_side)
    ELSE self

----------------------------------------------------------------------------
(* CurrentMinimizer.  Offsets, positions and currents are integers in a    *)
(* fixed unit; a quotient is rounded towards zero to that unit.  Joints<T> *)
(* is a function on the joints, enumerated in increasing order.            *)

\* a joint current lies in 0 .. MaxCurrent
MaxCurrent == 3

\* two joints stand for the joints of the robot
Joint == {1, 2}

\* the joint sets of Joints<T>: all the joints, or none
JointSets == {Joint, {}}

\* cycle_time.last_cycle_duration, in time units
CycleDurations == {1, 2}

CurrentMinimizerParameters(joints) ==
    [reset_threshold : {8},
     reset_base_offset : {2},
     reset_speed : {1, 2},
     allowed_current : {2},
     minimum_reached_hysteresis : {1},
     optimization_speed : {2},
     optimization_sign : {[joint \in joints |-> IF joint = 1 THEN -1 ELSE 1]}]

\* CurrentMinimizerParameters::default
CurrentMinimizerParameters_default(joints) ==
    [reset_threshold |-> 0, reset_base_offset |-> 0, reset_speed |-> 0,
     allowed_current |-> 0, minimum_reached_hysteresis |-> 0,
     optimization_speed |-> 0, optimization_sign |-> [joint \in joints |-> 0]]

\* #[derive(Default)] of CurrentMinimizer
CurrentMinimizer_default(joints) ==
    [position_offset |-> [joint \in joints |-> 0],
     state |-> "Optimizing",
     minimum_reached |-> FALSE,
     parameters |-> CurrentMinimizerParameters_default(joints)]

\* f32 division
quotient(x, d) == IF x >= 0 THEN x \div d ELSE -((-x) \div d)

RECURSIVE sum(_, _)
\* Iterator::sum of the values of f on the joints S
sum(f, S) ==
    IF S = {} THEN 0
    ELSE LET joint == CHOOSE j \in S : TRUE
         IN  f[joint] + sum(f, S \ {joint})

squared_position_offset_sum(position_offset) ==
    sum([joint \in DOMAIN position_offset |-> position_offset[joint] * position_offset[joint]],
        DOMAIN position_offset)

\* Iterator::max_by with f32::total_cmp: the last of the maximal elements
max_by(currents) ==
    CHOOSE joint \in DOMAIN currents :
        \A other \in DOMAIN currents :
            \/ currents[other] < currents[joint]
            \/ currents[other] = currents[joint] /\ other <= joint

less_than_with_hysteresis(last_evaluation, value, threshold, hysteresis) ==
    value < threshold + (IF last_evaluation THEN hysteresis ELSE -hysteresis)

\* arm of Optimizing that moves the offset of every joint
optimizing_moves_all_joints(self, currents, cycle_time) ==
    LET joint == max_by(currents)
        maximal_current == currents[joint]
        minimum_reached ==
            less_than_with_hysteresis(self.minimum_reached, maximal_current,
                                      self.parameters.allowed_current,
                                      self.parameters.minimum_reached_hysteresis)
    IN  [self EXCEPT
             !.minimum_reached = minimum_reached,
             !.position_offset =
                 [other \in DOMAIN @ |->
                     IF ~minimum_reached
                     THEN @[other] + quotient(self.parameters.optimization_sign[other]
                                                  * self.parameters.optimization_speed,
                                              cycle_time)
                     ELSE @[other]]]

\* the Optimizing arm of optimize, for currents on at least one joint
optimizing(self, currents, cycle_time) ==
    LET joint == max_by(currents)
        maximal_current == currents[joint]
        minimum_reached ==
            less_than_with_hysteresis(self.minimum_reached, maximal_current,
                                      self.parameters.allowed_current,
                                      self.parameters.minimum_reached_hysteresis)
    IN  [self EXCEPT
             !.minimum_reached = minimum_reached,
             !.position_offset[joint] =
                 IF ~minimum_reached
                 THEN @ + quotient(self.parameters.optimization_sign[joint]
                                       * self.parameters.optimization_speed,
                                   cycle_time)
                 ELSE @]

\* arm of Resetting that leaves the offsets as they are
resetting_keeps_offsets(self, squared_sum, cycle_time) ==
    LET resetting_finished == squared_sum < self.parameters.reset_base_offset
    IN  IF resetting_finished
        THEN [self EXCEPT !.state = "Optimizing"]
        ELSE self

\* arm of Resetting that shrinks the offsets in the call that finishes as well
resetting_finishes_with_shrink(self, squared_sum, cycle_time) ==
    LET resetting_finished == squared_sum < self.parameters.reset_base_offset
        shrunk == [joint \in DOMAIN self.position_offset |->
                      quotient(self.position_offset[joint],
                               1 + quotient(self.parameters.reset_speed, cycle_time))]
    IN  [self EXCEPT !.state = IF resetting_finished THEN "Optimizing" ELSE @,
                     !.position_offset = shrunk]

\* the Resetting arm of optimize
resetting(self, squared_sum, cycle_time) ==
    LET resetting_finished == squared_sum < self.parameters.reset_base_offset
    IN  IF resetting_finished
        THEN [self EXCEPT !.state = "Optimizing"]
        ELSE [self EXCEPT
                  !.position_offset =
                      [joint \in DOMAIN @ |->
                          quotient(@[joint],
                                   1 + quotient(self.parameters.reset_speed,
                                                cycle_time))]]

\* optimize that returns the unchanged positions for currents on no joint
CurrentMinimizer_optimize_silent_fallback(self, currents, positions, cycle_time, params) ==
    LET configured == [self EXCEPT !.parameters = params]
        squared_sum == squared_position_offset_sum(configured.position_offset)
        entered == IF squared_sum >= configured.parameters.reset_threshold
                   THEN [configured EXCEPT !.state = "Resetting"]
                   ELSE configured
        after == IF entered.state = "Optimizing"
                 THEN IF DOMAIN currents = {}
                      THEN entered
                      ELSE optimizing(entered, currents, cycle_time)
                 ELSE resetting(entered, squared_sum, cycle_time)
    IN  [self |-> after, outcome |-> "returned",
         returned |-> [joint \in DOMAIN positions |->
                          positions[joint] + after.position_offset[joint]]]

\* CurrentMinimizer::optimize: the object after the call and what the call
\* returns; the expect on the maximum panics for currents on no joint
CurrentMinimizer_optimize(self, currents, positions, cycle_time, params) ==
    LET configured == [self EXCEPT !.parameters = params]
        squared_sum == squared_position_offset_sum(configured.position_offset)
        entered == IF squared_sum >= configured.parameters.reset_threshold
                   THEN [configured EXCEPT !.state = "Resetting"]
                   ELSE configured
    IN  IF entered.state = "Optimizing" /\ DOMAIN currents = {}
        THEN [self |-> entered, outcome |-> "panicked", returned |-> <<>>]
        ELSE LET after == IF entered.state = "Optimizing"
                          THEN optimizing(entered, currents, cycle_time)
                          ELSE resetting(entered, squared_sum, cycle_time)
             IN  [self |-> after, outcome |-> "returned",
                  returned |-> [joint \in DOMAIN positions |->
                                   positions[joint] + after.position_offset[joint]]]

\* reset that returns to the state after construction
CurrentMinimizer_reset_state_too(self) ==
    [self EXCEPT !.position_offset = [joint \in DOMAIN @ |-> 0],
                 !.state = "Optimizing",
                 !.minimum_reached = FALSE]

\* CurrentMinimizer::reset
CurrentMinimizer_reset(self) ==
    [self EXCEPT !.position_offset = [joint \in DOMAIN @ |-> 0]]

----------------------------------------------------------------------------
(* JumpLeft.  The interpolator state is the phase of the motion and the    *)
(* time since its start; the motion file is a motion of MotionDuration     *)
(* time units that is aborted when its condition is not met.               *)

\* the duration of the interpolated motion, in time units
MotionDuration == 3

MotionType == {"JumpLeft", "JumpRight", "Stand"}

InterpolatorState_INITIAL == [kind |-> "Running", time_since_start |-> 0]

is_running(state) == state.kind = "Running"

\* InterpolatorState::reset
interpolator_reset(state) == InterpolatorState_INITIAL

\* MotionInterpolator::advance_state
advance_state(state, time_step, condition_input) ==
    IF ~is_running(state)
    THEN state
    ELSE IF ~condition_input
    THEN [state EXCEPT !.kind = "Aborted"]
    ELSE IF state.time_since_start + time_step >= MotionDuration
    THEN [kind |-> "Finished", time_since_start |-> MotionDuration]
    ELSE [state EXCEPT !.time_since_start = @ + time_step]

\* MotionInterpolator::value, mirrored
mirrored_value(state) == -state.time_since_start

\* JumpLeft::new
JumpLeft_new == [state |-> InterpolatorState_INITIAL]

JumpLeftContexts ==
    [motion_safe_exits : {motion_safe_exits},
     condition_input : BOOLEAN,
     cycle_time : CycleDurations,
     motion_selection : MotionType]

\* cycle that advances the interpolator a second time in the same cycle
JumpLeft_cycle_advances_twice(self, context) ==
    LET once == advance_state(self.state, context.cycle_time, context.condition_input)
        state == IF context.motion_selection = "JumpLeft"
                 THEN advance_state(once, context.cycle_time, context.condition_input)
                 ELSE interpolator_reset(self.state)
    IN  [self |-> [self EXCEPT !.state = state],
         motion_safe_exits |->
             [context.motion_safe_exits EXCEPT !["JumpLeft"] = ~is_running(state)],
         returned |-> [jump_left_joints_command |-> mirrored_value(state)]]

\* JumpLeft::cycle: the node after the cycle, the safe-exits table it has
\* written to and the main outputs it returns
JumpLeft_cycle(self, context) ==
    LET state == IF context.motion_selection = "JumpLeft"
                 THEN advance_state(self.state, context.cycle_time,
                                    context.condition_input)
                 ELSE interpolator_reset(self.state)
    IN  [self |-> [self EXCEPT !.state = state],
         motion_safe_exits |->
             [context.motion_safe_exits EXCEPT !["JumpLeft"] = ~is_running(state)],
         returned |-> [jump_left_joints_command |-> mirrored_value(state)]]

\* MotionSafeExits::default
MotionSafeExits_default == [motion \in MotionType |-> FALSE]

----------------------------------------------------------------------------
(* BehaviorCycler.  The Database holds the cycle time and the optional     *)
(* inputs the simulator writes before a cycle, and for every node the      *)
(* cycle in which its main outputs were last written.  A cycle is          *)
(* evaluated block by block of BehaviorCycler::cycle; `trace` lists what   *)
(* it did, in order.                                                       *)

\* the cycles of a run
MaxCycles == 2

\* the nodes, in the order of their blocks
Nodes ==
    <<"RuleObstacleComposer", "RoleAssignment", "BallStateComposer", "ActiveVision",
      "KickSelector", "WorldStateComposer", "Behavior", "LookAround">>

NodeNames == {Nodes[i] : i \in 1..Len(Nodes)}

\* what the cycles of the nodes return: Ok for all of them, or Err for one
NodeResults ==
    {[node \in NodeNames |-> IF node = failing THEN "Err" ELSE "Ok"] :
        failing \in NodeNames \cup {"none"}}

\* Database::default
Database_default ==
    [cycle_time |-> 0,
     game_controller_state |-> FALSE,
     filtered_game_state |-> FALSE,
     robot_to_field |-> FALSE,
     ball_state |-> FALSE,
     main_outputs |-> [node \in NodeNames |-> [cycle |-> 0, default |-> TRUE]]]

\* the cycle of a node that goes on to the next block after an error
node_cycle_continues_after_error(running, node, results) ==
    LET called == [running EXCEPT !.trace = Append(@, [event |-> "cycle", node |-> node])]
    IN  IF results[node] = "Err"
        THEN called
        ELSE [called EXCEPT
                  !.own_database.main_outputs[node] =
                      [cycle |-> running.own_database.cycle_time, default |-> FALSE],
                  !.trace = Append(@, [event |-> "write", node |-> node])]

\* the cycle of a node: its error leaves BehaviorCycler::cycle (`?`), its
\* main outputs are written to the database
node_cycle(running, node, results) ==
    LET called == [running EXCEPT !.trace = Append(@, [event |-> "cycle", node |-> node])]
    IN  IF results[node] = "Err"
        THEN [called EXCEPT !.returned = "Err", !.error = node]
        ELSE [called EXCEPT
                  !.own_database.main_outputs[node] =
                      [cycle |-> running.own_database.cycle_time, default |-> FALSE],
                  !.trace = Append(@, [event |-> "write", node |-> node])]

\* the else branch of a node that is not run: its outputs are set to default
node_default(running, node) ==
    [running EXCEPT
         !.own_database.main_outputs[node] =
             [cycle |-> running.own_database.cycle_time, default |-> TRUE],
         !.trace = Append(@, [event |-> "write", node |-> node])]

\* the next block, unless the cycle has returned or panicked before it
after(previous, block) == IF previous.returned # "running" THEN previous ELSE block

\* BehaviorCycler::cycle on a database, for the results of the nodes and
\* the ball state BallStateComposer puts out
BehaviorCycler_cycle(database, results, ball_state) ==
    LET start == [own_database |-> database, trace |-> <<>>,
                  returned |-> "running", error |-> "none"]
        rule_obstacle_composer ==
            IF database.game_controller_state
            THEN IF ~database.filtered_game_state
                 THEN [start EXCEPT !.returned = "panicked"]
                 ELSE node_cycle(start, "RuleObstacleComposer", results)
            ELSE node_default(start, "RuleObstacleComposer")
        role_assignment ==
            after(rule_obstacle_composer,
                  node_cycle(rule_obstacle_composer, "RoleAssignment", results))
        ball_state_composer ==
            after(role_assignment,
                  LET written == node_cycle(role_assignment, "BallStateComposer", results)
                  IN  IF written.returned = "running"
                      THEN [written EXCEPT !.own_database.ball_state = ball_state]
                      ELSE written)
        active_vision ==
            after(ball_state_composer,
                  node_cycle(ball_state_composer, "ActiveVision", results))
        kick_selector ==
            after(active_vision,
                  IF /\ active_vision.own_database.robot_to_field
                     /\ active_vision.own_database.ball_state
                  THEN node_cycle(active_vision, "KickSelector", results)
                  ELSE node_default(active_vision, "KickSelector"))
        world_state_composer ==
            after(kick_selector,
                  node_cycle(kick_selector, "WorldStateComposer", results))
        behavior ==
            after(world_state_composer,
                  node_cycle(world_state_composer, "Behavior", results))
        look_around ==
            after(behavior, node_cycle(behavior, "LookAround", results))
    IN  after(look_around,
              [look_around EXCEPT
                   !.trace = Append(@, [event |-> "notify_one", node |-> "own_changed"]),
                   !.returned = "Ok"])

----------------------------------------------------------------------------
(* intercept_ball (control/src/behavior/intercept_ball.rs) *)

\* Option<T>
None == [kind |-> "None"]
Some(value) == [kind |-> "Some", value |-> value]

\* coordinates of ball positions and of ball velocities
MaxBallCoordinate == 2

GamePhase == {"Normal", "PenaltyShootout"}
SubState == {"PenaltyKick", "KickIn"}
FilteredGameState ==
    {[kind |-> "Playing", ball_is_free |-> TRUE],
     [kind |-> "Playing", ball_is_free |-> FALSE],
     [kind |-> "Ready"]}
FilteredGameControllerState ==
    [game_phase : GamePhase,
     sub_state : {None} \cup {Some(sub_state) : sub_state \in SubState},
     game_state : FilteredGameState]

\* Point2 and Vector2 with integer coordinates
Point2 == [x : -1..MaxBallCoordinate, y : {0, 1}]
Vector2 == [x : -MaxBallCoordinate..0, y : {0, 1}]
origin == [x |-> 0, y |-> 0]

\* Isometry2<Ground, Field>: the robot's heading in quarter turns
Isometry2 == 0..2

\* Isometry2 * Vector2: a vector is turned and not translated
RECURSIVE transform_vector(_, _)
transform_vector(quarter_turns, vector) ==
    IF quarter_turns = 0 THEN vector
    ELSE transform_vector(quarter_turns - 1, [x |-> -vector.y, y |-> vector.x])

BallState == [ball_in_ground : Point2, ball_in_ground_velocity : Vector2]

WorldState ==
    [filtered_game_controller_state :
         {None} \cup {Some(state) : state \in FilteredGameControllerState},
     ball : {None} \cup {Some(ball) : ball \in BallState},
     robot : [ground_to_field :
                  {None} \cup {Some(isometry) : isometry \in Isometry2}]]

InterceptBallParameters ==
    [maximum_ball_distance : {2},
     minimum_ball_velocity : {0},
     minimum_ball_velocity_towards_robot : {0, 1},
     minimum_ball_velocity_towards_own_half : {0},
     maximum_intercept_distance : {1}]

WalkSpeed == {"Normal", "Fast"}

dot(a, b) == a.x * b.x + a.y * b.y

\* norm(v) < bound and norm(v) > bound, on the squares
norm_below(v, bound) == bound > 0 /\ dot(v, v) < bound * bound
norm_above(v, bound) == bound < 0 \/ dot(v, v) > bound * bound

\* Line::closest_point for the origin: point - direction * (point . direction)
\* / (direction . direction), kept as numerators over the denominator
\* direction . direction; for a zero direction the quotient is not a number
closest_point_to_origin(line) ==
    LET denominator == dot(line.direction, line.direction)
        along == dot(line.point, line.direction)
    IN  [x |-> line.point.x * denominator - line.direction.x * along,
         y |-> line.point.y * denominator - line.direction.y * along,
         denominator |-> denominator]

\* interception_point.coords().norm() > bound; false when not a number
scaled_norm_above(point, bound) ==
    /\ point.denominator # 0
    /\ \/ bound < 0
       \/ dot(point, point) > bound * bound * point.denominator * point.denominator

ball_is_interception_candidate(ball, ground_to_field, params) ==
    LET ball_is_in_front_of_robot ==
            /\ norm_below(ball.ball_in_ground, params.maximum_ball_distance)
            /\ ball.ball_in_ground.x > 0
        ball_is_moving_towards_robot ==
            ball.ball_in_ground_velocity.x < -params.minimum_ball_velocity_towards_robot
        ball_in_field_velocity ==
            transform_vector(ground_to_field, ball.ball_in_ground_velocity)
        ball_is_moving ==
            norm_above(ball_in_field_velocity, params.minimum_ball_velocity)
        ball_is_moving_towards_own_half ==
            ball_in_field_velocity.x < -params.minimum_ball_velocity_towards_own_half
    IN  /\ ball_is_in_front_of_robot
        /\ ball_is_moving
        /\ ball_is_moving_towards_robot
        /\ ball_is_moving_towards_own_half

\* the arm of execute for a ball and a ground_to_field that are known
intercept(ball, ground_to_field, params, walk_speed) ==
    LET ball_line == [point |-> ball.ball_in_ground,
                      direction |-> ball.ball_in_ground_velocity]
        interception_point == closest_point_to_origin(ball_line)
    IN  IF ~ball_is_interception_candidate(ball, ground_to_field, params)
        THEN None
        ELSE IF scaled_norm_above(interception_point, params.maximum_intercept_distance)
        THEN None
        ELSE Some([kind |-> "Walk",
                   head |-> [kind |-> "LookAt", target |-> ball.ball_in_ground,
                             image_region_target |-> "Center", camera |-> None],
                   path |-> <<[kind |-> "LineSegment", start |-> origin,
                               end |-> interception_point]>>,
                   left_arm |-> "Swing",
                   right_arm |-> "Swing",
                   orientation_mode |-> [kind |-> "Override", orientation |-> 0],
                   speed |-> walk_speed])

\* the game controller state of a penalty shootout or of a penalty kick
is_penalty(state) ==
    /\ state.kind = "Some"
    /\ \/ state.value.game_phase = "PenaltyShootout"
       \/ state.value.sub_state = Some("PenaltyKick")

\* the Playing state with a free ball, or no game controller state
is_playing_or_unknown(state) ==
    \/ state.kind = "None"
    \/ /\ state.kind = "Some"
       /\ state.value.game_state = [kind |-> "Playing", ball_is_free |-> TRUE]

\* execute without the early return for penalty kicks
execute_during_penalty(world_state, params, walk_speed) ==
    IF /\ is_playing_or_unknown(world_state.filtered_game_controller_state)
       /\ world_state.ball.kind = "Some"
       /\ world_state.robot.ground_to_field.kind = "Some"
    THEN intercept(world_state.ball.value,
                   world_state.robot.ground_to_field.value, params, walk_speed)
    ELSE None

\* intercept_ball::execute
execute(world_state, params, walk_speed) ==
    IF is_penalty(world_state.filtered_game_controller_state)
    THEN None
    ELSE IF /\ is_playing_or_unknown(world_state.filtered_game_controller_state)
            /\ world_state.ball.kind = "Some"
            /\ world_state.robot.ground_to_field.kind = "Some"
    THEN intercept(world_state.ball.value,
                   world_state.robot.ground_to_field.value, params, walk_speed)
    ELSE None

----------------------------------------------------------------------------
(* The calibration corrections of twix                                     *)
(* (tools/twix/src/panels/camera_calibration/optimization.rs and           *)
(* tools/twix/src/panels/semi_automatic_camera_calibration.rs)             *)

\* Euler angles of a correction
MaxAngle == 1

ROBOT_CORRECTION_PATH ==
    "parameters.camera_matrix_parameters.calibration.correction_in_robot"
CAMERA_TOP_CORRECTION_PATH ==
    "parameters.camera_matrix_parameters.calibration.correction_in_camera_top"
CAMERA_BOTTOM_CORRECTION_PATH ==
    "parameters.camera_matrix_parameters.calibration.correction_in_camera_bottom"
CorrectionPaths ==
    {ROBOT_CORRECTION_PATH, CAMERA_TOP_CORRECTION_PATH, CAMERA_BOTTOM_CORRECTION_PATH}

\* nalgebra::Vector3<f32> of small angles
Vector3 == [x : 0..MaxAngle, y : {0}, z : 0..MaxAngle]

\* Rotation3::from_euler_angles and Rotation3::euler_angles, on angles small
\* enough to be recovered from the rotation
from_euler_angles(roll, pitch, yaw) ==
    [kind |-> "Rotation3", roll |-> roll, pitch |-> pitch, yaw |-> yaw]
euler_angles(rotation) == <<rotation.roll, rotation.pitch, rotation.yaw>>

Rotation3 ==
    {from_euler_angles(vector.x, vector.y, vector.z) : vector \in Vector3}

Corrections ==
    [correction_in_robot : Rotation3,
     correction_in_camera_top : Rotation3,
     correction_in_camera_bottom : Rotation3]

\* serde_json::to_value([x, y, z]) and the Vector3 a BufferHandle reads from it
to_value(array) == [kind |-> "Array", elements |-> array]
from_value(value) ==
    [x |-> value.elements[1], y |-> value.elements[2], z |-> value.elements[3]]

\* Nao::subscribe_value: the handle reads the last value of its path
subscribe_value(path) == [path |-> path]

\* BufferHandle::get_last_value on the values the robot has sent
get_last_value(handle, values) ==
    IF values[handle.path].kind = "Some"
    THEN Some(from_value(values[handle.path].value))
    ELSE None

\* SemiAutomaticCalibrationContext::new
SemiAutomaticCalibrationContext_new ==
    LET top_camera_correction == subscribe_value(ROBOT_CORRECTION_PATH)
        bottom_camera_correction == subscribe_value(CAMERA_BOTTOM_CORRECTION_PATH)
        robot_correction == subscribe_value(CAMERA_TOP_CORRECTION_PATH)
    IN  [top_camera_correction |-> top_camera_correction,
         bottom_camera_correction |-> bottom_camera_correction,
         robot_correction |-> robot_correction]

\* SemiAutomaticCalibrationPanel::new
SemiAutomaticCalibrationPanel_new ==
    LET top_camera_correction == subscribe_value(ROBOT_CORRECTION_PATH)
        bottom_camera_correction == subscribe_value(CAMERA_BOTTOM_CORRECTION_PATH)
        robot_correction == subscribe_value(CAMERA_TOP_CORRECTION_PATH)
    IN  [top_camera_correction |-> top_camera_correction,
         bottom_camera_correction |-> bottom_camera_correction,
         robot_correction |-> robot_correction]

\* corrections(): Ok with the three rotations, or the error of the first
\* handle without a value
corrections(self, values) ==
    LET correction_in_robot == get_last_value(self.robot_correction, values)
        correction_in_camera_top == get_last_value(self.top_camera_correction, values)
        correction_in_camera_bottom ==
            get_last_value(self.bottom_camera_correction, values)
        rotation(vector) == from_euler_angles(vector.x, vector.y, vector.z)
    IN  IF correction_in_robot = None
        THEN [kind |-> "Err", error |-> "failed to get robot correction"]
        ELSE IF correction_in_camera_top = None
        THEN [kind |-> "Err", error |-> "failed to get camera top correction"]
        ELSE IF correction_in_camera_bottom = None
        THEN [kind |-> "Err", error |-> "failed to get camera bottom correction"]
        ELSE [kind |-> "Ok",
              value |->
                  [correction_in_robot |-> rotation(correction_in_robot.value),
                   correction_in_camera_top |->
                       rotation(correction_in_camera_top.value),
                   correction_in_camera_bottom |->
                       rotation(correction_in_camera_bottom.value)]]

\* Nao::write as the save_function: the robot takes the value and sends it
\* to the subscribers of the path
write(values, path, value) == [values EXCEPT ![path] = Some(value)]

\* apply_corrections with Nao::write as the save_function
apply_corrections(values, corrections_to_apply) ==
    LET robot ==
            write(values, ROBOT_CORRECTION_PATH,
                  to_value(euler_angles(corrections_to_apply.correction_in_robot)))
        top ==
            write(robot, CAMERA_TOP_CORRECTION_PATH,
                  to_value(euler_angles(corrections_to_apply.correction_in_camera_top)))
    IN  write(top, CAMERA_BOTTOM_CORRECTION_PATH,
              to_value(euler_angles(corrections_to_apply.correction_in_camera_bottom)))

----------------------------------------------------------------------------
(* The line drawing of the calibration panels                              *)
(* (tools/twix/src/panels/camera_calibration/panel.rs and                  *)
(* tools/twix/src/panels/scribble_camera_calibration.rs)                   *)

KEYPOINT_RADIUS == 5

\* the lines a panel holds at most
MaxDrawnLines == 2

\* Point2<Pixel>: the second point is within KEYPOINT_RADIUS of the other
\* two, which are at KEYPOINT_RADIUS from each other
Pixel == {[x |-> 0, y |-> 0], [x |-> 3, y |-> 0], [x |-> 4, y |-> 3]}

\* distance(a, b) < KEYPOINT_RADIUS, on the squares
within_keypoint_radius(a, b) ==
    (a.x - b.x) * (a.x - b.x) + (a.y - b.y) * (a.y - b.y)
        < KEYPOINT_RADIUS * KEYPOINT_RADIUS

\* LineSegment(start, end), a tuple struct
LineSegment(start, end) == <<start, end>>

\* Iterator::position: the index of the first of the line segments with an
\* endpoint within KEYPOINT_RADIUS of the pointer, if any
closest_line_index(segments, pointer) ==
    LET found == {index \in 1..Len(segments) :
                      \/ within_keypoint_radius(segments[index][1], pointer)
                      \/ within_keypoint_radius(segments[index][2], pointer)}
    IN  IF found = {} THEN None
        ELSE Some(CHOOSE index \in found : \A other \in found : index <= other)

\* Vec::remove
remove(lines, index) ==
    SubSeq(lines, 1, index - 1) \o SubSeq(lines, index + 1, Len(lines))

Idle == [kind |-> "Idle"]
DrawingLine(start) == [kind |-> "DrawingLine", start |-> start]

\* ui_content that keeps the line whose endpoint was clicked
ui_content_keeps_clicked_line(self, primary_clicked, pointer_position) ==
    IF self.user_state = Idle /\ ~primary_clicked
    THEN [self EXCEPT !.user_state = Idle]
    ELSE IF self.user_state = Idle /\ pointer_position.kind = "Some" /\ primary_clicked
    THEN LET pointer == pointer_position.value
             closest ==
                 closest_line_index(
                     [index \in 1..Len(self.drawn_lines) |->
                          self.drawn_lines[index].line_segment],
                     pointer)
         IN  IF closest.kind = "Some"
             THEN LET modified_line == self.drawn_lines[closest.value]
                      start ==
                          IF within_keypoint_radius(modified_line.line_segment[1], pointer)
                          THEN modified_line.line_segment[2]
                          ELSE modified_line.line_segment[1]
                  IN  [self EXCEPT !.user_state = DrawingLine(start)]
             ELSE [self EXCEPT !.user_state = DrawingLine(pointer)]
    ELSE IF /\ self.user_state.kind = "DrawingLine"
            /\ pointer_position.kind = "Some"
            /\ primary_clicked
    THEN [self EXCEPT
              !.drawn_lines =
                  Append(@, [line_segment |->
                                 LineSegment(self.user_state.start,
                                             pointer_position.value),
                             line_type |-> self.line_type]),
              !.user_state = Idle]
    ELSE self

\* SemiAutomaticCameraCalibrationPanel::ui_content, the match on
\* (self.user_state, pointer_position)
SemiAutomaticCameraCalibrationPanel_ui_content(self, primary_clicked, pointer_position) ==
    IF self.user_state = Idle /\ ~primary_clicked
    THEN [self EXCEPT !.user_state = Idle]
    ELSE IF self.user_state = Idle /\ pointer_position.kind = "Some" /\ primary_clicked
    THEN LET pointer == pointer_position.value
             closest ==
                 closest_line_index(
                     [index \in 1..Len(self.drawn_lines) |->
                          self.drawn_lines[index].line_segment],
                     pointer)
         IN  IF closest.kind = "Some"
             THEN LET modified_line == self.drawn_lines[closest.value]
                      start ==
                          IF within_keypoint_radius(modified_line.line_segment[1], pointer)
                          THEN modified_line.line_segment[2]
                          ELSE modified_line.line_segment[1]
                  IN  [self EXCEPT
                           !.drawn_lines = remove(@, closest.value),
                           !.user_state = DrawingLine(start)]
             ELSE [self EXCEPT !.user_state = DrawingLine(pointer)]
    ELSE IF /\ self.user_state.kind = "DrawingLine"
            /\ pointer_position.kind = "Some"
            /\ primary_clicked
    THEN [self EXCEPT
              !.drawn_lines =
                  Append(@, [line_segment |->
                                 LineSegment(self.user_state.start,
                                             pointer_position.value),
                             line_type |-> self.line_type]),
              !.user_state = Idle]
    ELSE self

\* ScribbleCalibrationPanel::ui_content, the match on (self.state,
\* pointer_position); its lines are LineSegments
ScribbleCalibrationPanel_ui_content(self, primary_clicked, pointer_position) ==
    IF self.state = Idle /\ ~primary_clicked
    THEN [self EXCEPT !.state = Idle]
    ELSE IF self.state = Idle /\ pointer_position.kind = "Some" /\ primary_clicked
    THEN LET pointer == pointer_position.value
             closest == closest_line_index(self.lines, pointer)
         IN  IF closest.kind = "Some"
             THEN LET modified_line == self.lines[closest.value]
                      start ==
                          IF within_keypoint_radius(modified_line[1], pointer)
                          THEN modified_line[2]
                          ELSE modified_line[1]
                  IN  [self EXCEPT
                           !.lines = remove(@, closest.value),
                           !.state = DrawingLine(start)]
             ELSE [self EXCEPT !.state = DrawingLine(pointer)]
    ELSE IF /\ self.state.kind = "DrawingLine"
            /\ pointer_position.kind = "Some"
            /\ primary_clicked
    THEN [self EXCEPT
              !.lines = Append(@, LineSegment(self.state.start, pointer_position.value)),
              !.state = Idle]
    ELSE self

\* the panels as constructed: Idle and without lines
SemiAutomaticCameraCalibrationPanel_new ==
    [user_state |-> Idle, drawn_lines |-> <<>>, line_type |-> "Goal"]
ScribbleCalibrationPanel_new == [state |-> Idle, lines |-> <<>>]

----------------------------------------------------------------------------
(* CameraMatrix (crates/projection/src/camera_matrix.rs) *)

\* Isometry3: the transforms are the permutations of three points, a group
\* in which the product depends on the order of its factors
Isometry3 ==
    {isometry \in [1..3 -> 1..3] :
         \A point \in 1..3 : \E source \in 1..3 : isometry[source] = point}
identity == [point \in 1..3 |-> point]

\* Mul for transforms: a * b transforms by b, then by a
compose(a, b) == [point \in 1..3 |-> a[b[point]]]

\* linear_algebra::Rotation3<Frame, Frame>, the corrections
FramedRotation3 ==
    {identity, <<2, 1, 3>>, <<2, 3, 1>>}

\* Intrinsic::new, CameraProjection::new, CameraProjection::inverse,
\* Horizon::from_parameters and Intrinsic::calculate_field_of_view: each
\* result is determined by the arguments and determines them
Intrinsic_new(focals, optical_center) ==
    [focals |-> focals, optical_center |-> optical_center]
CameraProjection_new(ground_to_camera, intrinsics) ==
    [kind |-> "CameraProjection", extrinsic |-> ground_to_camera,
     intrinsic |-> intrinsics]
inverse(projection, elevation) ==
    [kind |-> "InverseCameraProjection", projection |-> projection,
     elevation |-> elevation]
Horizon_from_parameters(ground_to_camera, intrinsics) ==
    Some([kind |-> "Horizon", ground_to_camera |-> ground_to_camera,
          intrinsics |-> intrinsics])
calculate_field_of_view(focals, image_size) ==
    [kind |-> "FieldOfView", focals |-> focals, image_size |-> image_size]

\* CameraMatrix::from_normalized_focal_and_center
from_normalized_focal_and_center(focal_length, optical_center, image_size, ground_to_robot, robot_to_head, head_to_camera) ==
    LET focal_length_scaled == [x |-> focal_length.x * image_size.x,
                                y |-> focal_length.y * image_size.y]
        optical_center_scaled == [x |-> optical_center.x * image_size.x,
                                  y |-> optical_center.y * image_size.y]
        intrinsics == Intrinsic_new(focal_length_scaled, optical_center_scaled)
        field_of_view == calculate_field_of_view(intrinsics.focals, image_size)
        ground_to_camera ==
            compose(compose(head_to_camera, robot_to_head), ground_to_robot)
        horizon == Horizon_from_parameters(ground_to_camera, intrinsics)
    IN  [intrinsics |-> intrinsics,
         field_of_view |-> field_of_view,
         horizon |-> horizon,
         ground_to_robot |-> ground_to_robot,
         robot_to_head |-> robot_to_head,
         head_to_camera |-> head_to_camera,
         image_size |-> image_size,
         ground_to_camera |-> ground_to_camera,
         ground_to_pixel |-> CameraProjection_new(ground_to_camera, intrinsics),
         pixel_to_ground |->
             inverse(CameraProjection_new(ground_to_camera, intrinsics), 0)]

\* CameraMatrix::compute_memoized
compute_memoized(self) ==
    LET ground_to_camera ==
            compose(compose(self.head_to_camera, self.robot_to_head),
                    self.ground_to_robot)
    IN  [self EXCEPT
             !.ground_to_camera = ground_to_camera,
             !.ground_to_pixel = CameraProjection_new(ground_to_camera, self.intrinsics),
             !.pixel_to_ground =
                 inverse(CameraProjection_new(ground_to_camera, self.intrinsics), 0)]

\* to_corrected that corrects the memoized ground_to_camera by the camera
\* correction alone
to_corrected_camera_only(self, correction_in_robot, correction_in_camera) ==
    LET corrected_ground_to_robot == compose(correction_in_robot, self.ground_to_robot)
        corrected_robot_to_head == compose(self.robot_to_head, correction_in_robot)
        corrected_head_to_camera == compose(correction_in_camera, self.head_to_camera)
        corrected_ground_to_camera ==
            compose(correction_in_camera, self.ground_to_camera)
        new_horizon ==
            Horizon_from_parameters(corrected_ground_to_camera, self.intrinsics)
        ground_to_pixel ==
            CameraProjection_new(corrected_ground_to_camera, self.intrinsics)
    IN  [ground_to_robot |-> corrected_ground_to_robot,
         robot_to_head |-> corrected_robot_to_head,
         head_to_camera |-> corrected_head_to_camera,
         intrinsics |-> self.intrinsics,
         field_of_view |-> self.field_of_view,
         horizon |-> new_horizon,
         image_size |-> self.image_size,
         ground_to_camera |-> corrected_ground_to_camera,
         ground_to_pixel |-> ground_to_pixel,
         pixel_to_ground |-> inverse(ground_to_pixel, 0)]

\* CameraMatrix::to_corrected
to_corrected(self, correction_in_robot, correction_in_camera) ==
    LET corrected_ground_to_robot == compose(correction_in_robot, self.ground_to_robot)
        corrected_robot_to_head == compose(self.robot_to_head, correction_in_robot)
        corrected_head_to_camera == compose(correction_in_camera, self.head_to_camera)
        corrected_ground_to_camera ==
            compose(compose(corrected_head_to_camera, corrected_robot_to_head),
                    corrected_ground_to_robot)
        new_horizon ==
            Horizon_from_parameters(corrected_ground_to_camera, self.intrinsics)
        ground_to_pixel ==
            CameraProjection_new(corrected_ground_to_camera, self.intrinsics)
    IN  [ground_to_robot |-> corrected_ground_to_robot,
         robot_to_head |-> corrected_robot_to_head,
         head_to_camera |-> corrected_head_to_camera,
         intrinsics |-> self.intrinsics,
         field_of_view |-> self.field_of_view,
         horizon |-> new_horizon,
         image_size |-> self.image_size,
         ground_to_camera |-> corrected_ground_to_camera,
         ground_to_pixel |-> ground_to_pixel,
         pixel_to_ground |-> inverse(ground_to_pixel, 0)]

----------------------------------------------------------------------------
(* The components a specification does not run stay as constructed *)

\* the camera matrix of a robot whose frames coincide
CameraMatrixConstructed ==
    camera_matrix =
        from_normalized_focal_and_center(
            [x |-> 1, y |-> 1], [x |-> 1, y |-> 2], [x |-> 2, y |-> 1],
            identity, identity, identity)

ToolsConstructed ==
    /\ motion_command = None
    /\ calibration = [self |-> SemiAutomaticCalibrationContext_new,
                      values |-> [path \in CorrectionPaths |-> None]]
    /\ panel = SemiAutomaticCameraCalibrationPanel_new
    /\ CameraMatrixConstructed

NodesConstructed ==
    /\ minimizer = CurrentMinimizer_default(Joint)
    /\ jump_left = JumpLeft_new
    /\ motion_safe_exits = MotionSafeExits_default
    /\ own_database = Database_default
    /\ own_changed = 0
    /\ ToolsConstructed

----------------------------------------------------------------------------
(* The control cycle: one request and its transition, then the tick *)

Init ==
    /\ NodesConstructed
    /\ parameters \in Parameters
    /\ \E side \in Side :
           mode = [kind |-> "Walking",
                   step |-> StepState_new([support_side |-> side, end_feet |-> ZERO]),
                   requested_step |-> ZERO]
    /\ last = [op |-> "none"]

Stand ==
    /\ last.op = "none"
    /\ mode.kind = "Walking"
    /\ \E context \in Contexts :
           /\ mode' = stand(mode, context)
           /\ last' = [op |-> "stand", context |-> context, before |-> mode]
    /\ UNCHANGED <<parameters, nodes>>

Walk ==
    /\ last.op = "none"
    /\ mode.kind = "Walking"
    /\ \E context \in Contexts, requested_step \in Requests :
           /\ mode' = walk(mode, context, requested_step)
           /\ last' = [op |-> "walk", context |-> context, before |-> mode,
                       requested_step |-> requested_step]
    /\ UNCHANGED <<parameters, nodes>>

Kick ==
    /\ last.op = "none"
    /\ mode.kind = "Walking"
    /\ \E context \in Contexts, variant \in KickVariant, kicking_side \in Side,
          strength \in 1..MaxStrength :
           /\ mode' = kick(mode, context, variant, kicking_side, strength)
           /\ last' = [op |-> "kick", context |-> context, before |-> mode,
                       variant |-> variant, kicking_side |-> kicking_side,
                       strength |-> strength]
    /\ UNCHANGED <<parameters, nodes>>

\* a stand request in the Stopping mode
StoppingStand ==
    /\ last.op = "none"
    /\ mode.kind = "Stopping"
    /\ \E context \in Contexts :
           /\ mode' = Stopping_stand(mode, context)
           /\ last' = [op |-> "stopping stand", context |-> context, before |-> mode]
    /\ UNCHANGED <<parameters, nodes>>

Tick ==
    /\ last.op # "none"
    /\ mode' = tick(mode, last.context)
    /\ last' = [op |-> "none"]
    /\ UNCHANGED <<parameters, nodes>>

Next == Stand \/ Walk \/ Kick \/ StoppingStand \/ Tick

Spec == Init /\ [][Next]_vars

----------------------------------------------------------------------------
(* One transition applied to any Walking mode: the previous smoothed step  *)
(* is any step and the step is fresh or timed out.                         *)

\* non-negative accelerations, reduction factor 0.5 or 1.0
AnyParameters ==
    [max_forward_acceleration : 0..MaxAcceleration,
     max_turn_acceleration : {2 * k : k \in 1..(MaxAcceleration + 1)},
     forward_turn_threshold : {1},
     forward_turn_reduction : 1..2,
     max_step_duration : {MaxStepDuration}]

\* accelerations of either sign
SignedParameters ==
    [max_forward_acceleration : (-1)..MaxAcceleration,
     max_turn_acceleration : {2 * k : k \in (-1)..MaxAcceleration},
     forward_turn_threshold : {1},
     forward_turn_reduction : 1..2,
     max_step_duration : {MaxStepDuration}]

AnySteps ==
    [forward : (-MaxForward)..MaxForward, left : {0}, turn : (-MaxTurn)..MaxTurn]

AnyWalking ==
    { [kind |-> "Walking",
       step |-> [plan |-> [support_side |-> side, end_feet |-> previous],
                 time_since_start |-> time],
       requested_step |-> previous] :
          side \in Side, previous \in AnySteps, time \in {0, MaxStepDuration + 1} }

InitAny ==
    /\ NodesConstructed
    /\ parameters \in AnyParameters
    /\ mode \in AnyWalking
    /\ last = [op |-> "none"]

InitSigned ==
    /\ NodesConstructed
    /\ parameters \in SignedParameters
    /\ mode \in AnyWalking
    /\ last = [op |-> "none"]

NextAny == Stand \/ Walk \/ Kick

SpecAny == InitAny /\ [][NextAny]_vars

SpecSigned == InitSigned /\ [][NextAny]_vars

----------------------------------------------------------------------------
(* The cycle a state records, for the properties below.  They are stated   *)
(* on the states between a transition and its tick, where `mode` is the    *)
(* Mode the transition returned and last.before the Mode it was applied to.*)

Transitioned == last.op \in {"stand", "walk", "kick"}

Switched == is_support_switched(last.before.step, last.context)

Timeouted == is_timeouted(last.before.step, last.context.parameters)

CatchHolds ==
    should_catch(last.context, last.before.step.plan.end_feet,
                 last.before.step.plan.support_side)

BeforeSide == last.before.step.plan.support_side

\* the support side of the step of a Walking or Catching mode
StepSide(m) == m.step.plan.support_side

\* a Walking whose step has just been created on `side`
NewWalkingOn(m, side) ==
    /\ m.kind = "Walking"
    /\ m.step.time_since_start = 0
    /\ m.step.plan.support_side = side
    /\ m.step.plan.end_feet = m.requested_step

----------------------------------------------------------------------------
(* C1 *)

\* C1 as stated: on every cycle in which should_catch holds, stand, walk and
\* kick each return Catching, also when a support switch or a timeout holds.
C1_CatchAlwaysWins ==
    (Transitioned /\ CatchHolds) => mode.kind = "Catching"

\* C1, amended: on every cycle in which should_catch holds and no support
\* switch holds (and, for stand, no timeout either), stand, walk and kick each
\* return Catching, whatever the request; for walk and kick also when the
\* step is timed out.
C1_CatchWinsWithoutSwitch ==
    (/\ Transitioned
     /\ CatchHolds
     /\ ~Switched
     /\ (last.op = "stand" => ~Timeouted))
    => mode.kind = "Catching"

C1_Witness ==
    /\ last.op = "walk"
    /\ CatchHolds /\ ~Switched /\ Timeouted
    /\ last.requested_step # ZERO
    /\ mode.kind = "Catching"

----------------------------------------------------------------------------
(* C2 *)

\* C2: when a support switch and should_catch hold on the same cycle, the
\* result is the switch-driven transition and not Catching: walk returns a new
\* Walking on the opposite support side, stand returns Stopping, kick returns
\* Kicking or the pre-step Walking.
C2_SwitchBeatsCatch ==
    (Transitioned /\ Switched /\ CatchHolds) =>
        /\ mode.kind # "Catching"
        /\ last.op = "walk" => NewWalkingOn(mode, opposite(BeforeSide))
        /\ last.op = "stand" => mode.kind = "Stopping"
        /\ last.op = "kick" =>
               \/ mode.kind = "Kicking"
               \/ NewWalkingOn(mode, opposite(BeforeSide))

C2_Witness ==
    /\ last.op = "walk"
    /\ Switched /\ CatchHolds
    /\ NewWalkingOn(mode, opposite(BeforeSide))

----------------------------------------------------------------------------
(* C3 *)

\* C3 as stated: with no support switch, should_catch holding and the step
\* timed out, the result is Catching for stand as well as for walk and kick.
C3_CatchBeforeTimeoutAll ==
    (Transitioned /\ ~Switched /\ CatchHolds /\ Timeouted) => mode.kind = "Catching"

\* C3, amended: walk and kick evaluate the catch predicate before the timeout
\* (no switch, catch and timeout together give Catching); stand evaluates the
\* timeout together with the support switch, before the catch, and gives
\* Stopping on such a cycle.
C3_CatchBeforeTimeoutWalkKick ==
    (Transitioned /\ ~Switched /\ CatchHolds /\ Timeouted) =>
        /\ last.op \in {"walk", "kick"} => mode.kind = "Catching"
        /\ last.op = "stand" => mode.kind = "Stopping"

C3_Witness ==
    /\ last.op = "stand"
    /\ ~Switched /\ CatchHolds /\ Timeouted
    /\ mode.kind = "Stopping"

----------------------------------------------------------------------------
(* C4 *)

\* C4 as stated: under a Walk request the support side of the Mode's step
\* differs from the previous cycle's exactly when is_support_switched held, and
\* is unchanged on every other cycle, timeouts and catches included.
C4_SideTogglesOnlyOnSwitch ==
    last.op = "walk" => ((StepSide(mode) # BeforeSide) <=> Switched)

\* C4, amended: under a Walk request the support side of the Mode's step
\* differs from the previous cycle's exactly when is_support_switched held or
\* the step was timed out with no catch; it is unchanged on every other cycle
\* (a catch included) and the new side is the opposite side, one toggle.
C4_SideTogglesOnSwitchOrTimeout ==
    last.op = "walk" =>
        /\ (StepSide(mode) # BeforeSide) <=> (Switched \/ (Timeouted /\ ~CatchHolds))
        /\ StepSide(mode) \in {BeforeSide, opposite(BeforeSide)}

C4_Witness ==
    /\ last.op = "walk"
    /\ ~Switched /\ ~CatchHolds /\ Timeouted
    /\ StepSide(mode) = opposite(BeforeSide)
    /\ last.before.requested_step # ZERO

----------------------------------------------------------------------------
(* C5 *)

\* C5: Kicking is entered from Walking only by a kick request on a cycle with
\* a support switch where the opposite of the current support side is the
\* requested kicking side; the Kicking holds a KickState with exactly the
\* requested variant, side and strength and has the next support side.
C5_KickingOnlyOnMatchingSwitch ==
    (Transitioned /\ mode.kind = "Kicking") =>
        /\ last.op = "kick"
        /\ Switched
        /\ opposite(BeforeSide) = last.kicking_side
        /\ mode.kick.variant = last.variant
        /\ mode.kick.side = last.kicking_side
        /\ mode.kick.strength = last.strength
        /\ mode.support_side = opposite(BeforeSide)

C5_Witness ==
    /\ last.op = "kick"
    /\ Switched /\ CatchHolds /\ Timeouted
    /\ mode.kind = "Kicking"
    /\ mode.kick.variant = "Turn"

----------------------------------------------------------------------------
(* C6 *)

\* C6: a kick request at a support switch whose next support side differs
\* from the requested kicking side yields a Walking with a step on that next
\* support side built from a Step::ZERO request, and not Kicking.
C6_KickSideMismatchPreStep ==
    (last.op = "kick" /\ Switched /\ opposite(BeforeSide) # last.kicking_side) =>
        /\ mode.kind = "Walking"
        /\ NewWalkingOn(mode, opposite(BeforeSide))
        /\ mode = Walking_new(last.context, ZERO, opposite(BeforeSide),
                              last.before.requested_step)
        /\ mode.requested_step.left = 0

C6_Witness ==
    /\ last.op = "kick"
    /\ Switched
    /\ last.kicking_side = "Left"
    /\ BeforeSide = "Left"
    /\ mode.kind = "Walking"
    /\ StepSide(mode) = "Right"

----------------------------------------------------------------------------
(* C7 *)

\* C7: stand on a Walking whose step is support-switched or timed out returns
\* Stopping on the opposite of the current step's support side; otherwise, if
\* should_catch holds, Catching; otherwise the Walking mode unchanged.
C7_StandTransition ==
    last.op = "stand" =>
        IF Switched \/ Timeouted
        THEN /\ mode.kind = "Stopping"
             /\ mode.support_side = opposite(BeforeSide)
        ELSE IF CatchHolds
        THEN mode.kind = "Catching"
        ELSE mode = last.before

C7_Witness ==
    /\ last.op = "stand"
    /\ Switched /\ ~Timeouted /\ CatchHolds
    /\ BeforeSide = "Right"
    /\ mode.kind = "Stopping"
    /\ mode.support_side = "Left"

----------------------------------------------------------------------------
(* C8 *)

\* C8: walk on a support-switched step returns a new Walking whose plan is on
\* the opposite support side and whose requested_step is the raw request
\* smoothed against the previous Mode's smoothed requested_step.
C8_WalkSmoothsAgainstPrevious ==
    (last.op = "walk" /\ Switched) =>
        /\ NewWalkingOn(mode, opposite(BeforeSide))
        /\ mode.requested_step =
               smoothed_step(last.context, last.requested_step,
                             last.before.requested_step)

\* a switch where the previous smoothed forward is not zero, smoothing
\* against zero would give another step, and the request is clamped
C8_Witness ==
    /\ last.op = "walk"
    /\ Switched
    /\ mode.kind = "Walking"
    /\ last.before.requested_step.forward # 0
    /\ mode.requested_step # smoothed_step(last.context, last.requested_step, ZERO)
    /\ mode.requested_step # last.requested_step

----------------------------------------------------------------------------
(* C9 *)

\* C9: when the step is timed out with no support switch and no catch, walk
\* returns a new Walking step on the opposite of the timed-out step's
\* support side.
C9_WalkTimeoutSwapsSide ==
    (last.op = "walk" /\ ~Switched /\ ~CatchHolds /\ Timeouted) =>
        NewWalkingOn(mode, opposite(BeforeSide))

C9_Witness ==
    /\ last.op = "walk"
    /\ ~Switched /\ ~CatchHolds /\ Timeouted
    /\ last.before.step.time_since_start > 0
    /\ mode.kind = "Walking"
    /\ mode.step.time_since_start = 0

----------------------------------------------------------------------------
(* C10 *)

\* C10 as stated: when walk handles a timeout (no switch, no catch), the new
\* step's support side equals the timed-out step's support side.
C10_WalkTimeoutKeepsSide ==
    (last.op = "walk" /\ ~Switched /\ ~CatchHolds /\ Timeouted) =>
        StepSide(mode) = BeforeSide

\* C10, amended: when walk handles a timeout (no switch, no catch), the
\* restarted step is on the opposite support side: the new step's support
\* side differs from the timed-out step's support side.
C10_WalkTimeoutOtherSide ==
    (last.op = "walk" /\ ~Switched /\ ~CatchHolds /\ Timeouted) =>
        StepSide(mode) # BeforeSide

C10_Witness ==
    /\ last.op = "walk"
    /\ ~Switched /\ ~CatchHolds /\ Timeouted
    /\ BeforeSide = "Left"
    /\ StepSide(mode) = "Right"

----------------------------------------------------------------------------
(* Step smoothing, as the properties below state it *)

Min(a, b) == IF a < b THEN a ELSE b

Max(a, b) == IF a > b THEN a ELSE b

PreviousStep == last.before.requested_step

\* the effective turn bound of the cycle: max_turn_acceleration, multiplied
\* by forward_turn_reduction (in halves) above the forward threshold
EffectiveTurnBound ==
    LET p == last.context.parameters
    IN  IF abs(PreviousStep.forward) > p.forward_turn_threshold
        THEN (p.max_turn_acceleration * p.forward_turn_reduction) \div 2
        ELSE p.max_turn_acceleration

\* x moved towards target by at most bound
Towards(x, target, bound) ==
    IF target > x THEN Min(target, x + bound) ELSE Max(target, x - bound)

\* the transition created a step from a Step::ZERO request: timeout recovery
\* of walk or kick, or the pre-step of kick
ZeroRequested ==
    \/ /\ last.op \in {"walk", "kick"}
       /\ ~Switched /\ ~CatchHolds /\ Timeouted
    \/ /\ last.op = "kick"
       /\ Switched
       /\ opposite(BeforeSide) # last.kicking_side

----------------------------------------------------------------------------
(* C11 *)

\* C11 as stated: the step begun by timeout recovery (walk or kick) and the
\* kick pre-step have requested_step = Step::ZERO for every previous
\* smoothed step.
C11_RecoveryStepIsZero ==
    (ZeroRequested /\ mode.kind = "Walking") => mode.requested_step = ZERO

\* C11, amended: the step begun by timeout recovery and the kick pre-step have
\* forward = 0 and left = 0 for every previous smoothed step; the turn is the
\* previous turn moved towards 0 by at most the effective turn bound, so it
\* is 0 only when |previous turn| is at most that bound.
C11_RecoveryStepForwardLeftZero ==
    (ZeroRequested /\ mode.kind = "Walking") =>
        /\ mode.requested_step.forward = 0
        /\ mode.requested_step.left = 0
        /\ mode.requested_step.turn = Towards(PreviousStep.turn, 0, EffectiveTurnBound)
        /\ (mode.requested_step.turn = 0) <=> (abs(PreviousStep.turn) <= EffectiveTurnBound)
        /\ mode.step.plan.end_feet = mode.requested_step

C11_Witness ==
    /\ ZeroRequested
    /\ last.op = "kick"
    /\ mode.kind = "Walking"
    /\ PreviousStep.forward # 0
    /\ PreviousStep.left # 0
    /\ mode.requested_step.forward = 0
    /\ mode.requested_step.turn # 0

----------------------------------------------------------------------------
(* C12 *)

\* C12 as stated: whenever the smoothed requested_step changes from one cycle
\* to the next, forward changes by at most max_forward_acceleration and turn
\* by at most the effective turn bound; left is not clamped.
C12_ChangeWithinAcceleration ==
    (Transitioned /\ mode.kind = "Walking" /\ mode.requested_step # PreviousStep) =>
        /\ abs(mode.requested_step.forward - PreviousStep.forward)
               <= last.context.parameters.max_forward_acceleration
        /\ abs(mode.requested_step.turn - PreviousStep.turn) <= EffectiveTurnBound

\* C12, amended: whenever the smoothed requested_step changes from one cycle
\* to the next, the magnitude of forward grows by at most
\* max_forward_acceleration, while towards zero forward may change by up to
\* |previous forward| (it can fall to exactly 0 in one step); turn changes by
\* at most the effective turn bound; left is not clamped.
C12_ChangeWithinAsymmetricBounds ==
    (Transitioned /\ mode.kind = "Walking" /\ mode.requested_step # PreviousStep) =>
        LET a == last.context.parameters.max_forward_acceleration
            old == PreviousStep.forward
            new == mode.requested_step.forward
        IN  /\ abs(new) <= abs(old) + a
            /\ abs(new - old) <= Max(a, abs(old))
            /\ abs(mode.requested_step.turn - PreviousStep.turn) <= EffectiveTurnBound
            /\ last.op = "walk" /\ Switched =>
                   mode.requested_step.left = last.requested_step.left

C12_Witness ==
    /\ last.op = "walk"
    /\ Switched
    /\ mode.kind = "Walking"
    /\ PreviousStep.forward - mode.requested_step.forward
           > last.context.parameters.max_forward_acceleration
    /\ abs(last.requested_step.turn - PreviousStep.turn) > EffectiveTurnBound
    /\ mode.requested_step.left # PreviousStep.left

----------------------------------------------------------------------------
(* The call of Walking::new a transition made, if any *)

\* the transition called Walking::new and it returned
NewCalled ==
    /\ \/ last.op = "walk" /\ Switched
       \/ ZeroRequested
    /\ mode.kind = "Walking"

\* the raw request given to Walking::new
RawRequest == IF last.op = "walk" /\ Switched THEN last.requested_step ELSE ZERO

----------------------------------------------------------------------------
(* C13 *)

\* C13: smoothing never carries forward across zero in one step: after a
\* positive previous forward the new forward is >= 0, after a negative one it
\* is <= 0, for every requested forward, and a request of the opposite sign
\* gives exactly 0.
C13_ForwardNeverCrossesZero ==
    NewCalled =>
        /\ PreviousStep.forward > 0 =>
               /\ mode.requested_step.forward >= 0
               /\ RawRequest.forward < 0 => mode.requested_step.forward = 0
        /\ PreviousStep.forward < 0 =>
               /\ mode.requested_step.forward <= 0
               /\ RawRequest.forward > 0 => mode.requested_step.forward = 0

C13_Witness ==
    /\ NewCalled
    /\ last.op = "walk"
    /\ PreviousStep.forward > last.context.parameters.max_forward_acceleration
    /\ last.context.parameters.max_forward_acceleration > 0
    /\ RawRequest.forward < 0
    /\ mode.requested_step.forward = 0

----------------------------------------------------------------------------
(* C14 *)

\* C14: when the previous smoothed forward is exactly 0, the new forward is
\* the requested forward clamped to
\* [-max_forward_acceleration, +max_forward_acceleration].
C14_ForwardFromZero ==
    (NewCalled /\ PreviousStep.forward = 0) =>
        LET a == last.context.parameters.max_forward_acceleration
            r == RawRequest.forward
        IN  mode.requested_step.forward = IF r < -a THEN -a ELSE IF r > a THEN a ELSE r

\* with max 1 a request of -2 gives -1
C14_Witness ==
    /\ NewCalled
    /\ PreviousStep.forward = 0
    /\ last.context.parameters.max_forward_acceleration = 1
    /\ RawRequest.forward = -2
    /\ mode.requested_step.forward = -1

----------------------------------------------------------------------------
(* C15 *)

\* the new turn is the previous turn plus the requested change clamped to
\* [-bound, +bound]
TurnSmoothedWith(bound) ==
    LET change == RawRequest.turn - PreviousStep.turn
    IN  mode.requested_step.turn
            = PreviousStep.turn
              + (IF change < -bound THEN -bound ELSE IF change > bound THEN bound
                 ELSE change)

ReducedTurnBound ==
    (last.context.parameters.max_turn_acceleration
     * last.context.parameters.forward_turn_reduction) \div 2

\* C15 as stated: above the forward threshold the turn bound is
\* max_turn_acceleration * forward_turn_reduction, which is strictly smaller
\* than max_turn_acceleration; at or below the threshold it is
\* max_turn_acceleration; the new turn is the previous turn plus the clamped
\* change.
C15_TurnBoundStrictlyReduced ==
    NewCalled =>
        IF abs(PreviousStep.forward) > last.context.parameters.forward_turn_threshold
        THEN /\ TurnSmoothedWith(ReducedTurnBound)
             /\ ReducedTurnBound < last.context.parameters.max_turn_acceleration
        ELSE TurnSmoothedWith(last.context.parameters.max_turn_acceleration)

\* C15, amended: above the forward threshold the turn bound is
\* max_turn_acceleration * forward_turn_reduction, which is strictly smaller
\* than max_turn_acceleration when max_turn_acceleration > 0 and
\* forward_turn_reduction < 1; at or below the threshold it is
\* max_turn_acceleration; the new turn is the previous turn plus the clamped
\* change.
C15_TurnBoundReduced ==
    NewCalled =>
        IF abs(PreviousStep.forward) > last.context.parameters.forward_turn_threshold
        THEN /\ TurnSmoothedWith(ReducedTurnBound)
             /\ (/\ last.context.parameters.max_turn_acceleration > 0
                 /\ last.context.parameters.forward_turn_reduction < 2)
                => ReducedTurnBound < last.context.parameters.max_turn_acceleration
        ELSE TurnSmoothedWith(last.context.parameters.max_turn_acceleration)

C15_Witness ==
    /\ NewCalled
    /\ last.op = "walk"
    /\ abs(PreviousStep.forward) > last.context.parameters.forward_turn_threshold
    /\ last.context.parameters.max_turn_acceleration = 2
    /\ last.context.parameters.forward_turn_reduction = 1
    /\ RawRequest.turn = PreviousStep.turn + 2
    /\ mode.requested_step.turn = PreviousStep.turn + 1

----------------------------------------------------------------------------
(* C16 *)

\* C16 as stated: smoothing only reduces magnitude: |new forward| <=
\* |requested forward| and |new turn| <= |requested turn| for every previous
\* smoothed step and every request.
C16_SmoothingReducesMagnitude ==
    NewCalled =>
        /\ abs(mode.requested_step.forward) <= abs(RawRequest.forward)
        /\ abs(mode.requested_step.turn) <= abs(RawRequest.turn)

\* C16, amended: |new forward| <= |requested forward| for every previous
\* smoothed step and every request; the new turn lies between the previous
\* turn and the requested turn, so |new turn| <= max(|previous turn|,
\* |requested turn|) and can exceed |requested turn|.
C16_SmoothingReducesForwardMagnitude ==
    NewCalled =>
        /\ abs(mode.requested_step.forward) <= abs(RawRequest.forward)
        /\ abs(mode.requested_step.turn)
               <= Max(abs(PreviousStep.turn), abs(RawRequest.turn))
        /\ mode.requested_step.turn >= Min(PreviousStep.turn, RawRequest.turn)
        /\ mode.requested_step.turn <= Max(PreviousStep.turn, RawRequest.turn)

C16_Witness ==
    /\ NewCalled
    /\ last.op = "walk"
    /\ abs(mode.requested_step.forward) < abs(RawRequest.forward)
    /\ abs(mode.requested_step.turn) > abs(RawRequest.turn)
    /\ Switched

----------------------------------------------------------------------------
(* C17 *)

\* C17: the left component of the smoothed requested_step equals the left
\* component of the raw request given to Walking::new, whatever the previous
\* smoothed step and the acceleration parameters are.
C17_LeftPassedThrough ==
    NewCalled => mode.requested_step.left = RawRequest.left

C17_Witness ==
    /\ NewCalled
    /\ last.op = "walk"
    /\ RawRequest.left # PreviousStep.left
    /\ mode.requested_step.left = RawRequest.left
    /\ mode.requested_step.forward # RawRequest.forward
    /\ mode.requested_step.turn # RawRequest.turn
    /\ last.context.parameters.max_forward_acceleration = 0

----------------------------------------------------------------------------
(* C18 *)

\* C18: a step does not stay active past its timeout: on a cycle where
\* is_timeouted holds for the current step, none of stand, walk and kick
\* returns the Walking mode unchanged; each returns Stopping, Catching,
\* Kicking or a Walking with a newly created step.
C18_TimedOutStepIsLeft ==
    (Transitioned /\ Timeouted) =>
        /\ mode # last.before
        /\ \/ mode.kind \in {"Stopping", "Catching", "Kicking"}
           \/ /\ mode.kind = "Walking"
              /\ mode.step.time_since_start = 0

C18_Witness ==
    /\ last.op = "kick"
    /\ Timeouted /\ ~Switched /\ ~CatchHolds
    /\ mode.kind = "Walking"
    /\ mode.step.time_since_start = 0
    /\ last.before.step.time_since_start > last.context.parameters.max_step_duration

----------------------------------------------------------------------------
(* C19 *)

\* C19: on a cycle with no support switch, no catch and no timeout, stand,
\* walk and kick each return the same Walking mode unchanged, same step state
\* and same smoothed requested_step, whatever the raw walk request or the
\* kick parameters of that cycle are.
C19_DefaultLeavesModeUnchanged ==
    (Transitioned /\ ~Switched /\ ~CatchHolds /\ ~Timeouted) =>
        /\ mode = last.before
        /\ mode.step = last.before.step
        /\ mode.requested_step = last.before.requested_step

C19_Witness ==
    /\ last.op = "walk"
    /\ ~Switched /\ ~CatchHolds /\ ~Timeouted
    /\ last.requested_step # last.before.requested_step
    /\ last.before.step.time_since_start > 0
    /\ mode = last.before

----------------------------------------------------------------------------
(* C20 *)

NonNegativeParameters ==
    /\ last.context.parameters.max_forward_acceleration >= 0
    /\ last.context.parameters.max_turn_acceleration >= 0
    /\ last.context.parameters.forward_turn_reduction >= 0

\* C20: every Walking operation is total and has no error outcome: for every
\* combination of support switch, catch and timeout and every requested step,
\* with non-negative acceleration parameters, stand, walk and kick return a
\* Mode without aborting, and an out-of-range request is absorbed by
\* clamping.
C20_OperationsTotal ==
    (Transitioned /\ NonNegativeParameters) =>
        /\ mode.kind \in {"Walking", "Catching", "Kicking", "Stopping"}
        /\ mode # Panicked
        /\ (last.op = "walk" /\ Switched) =>
               /\ mode.kind = "Walking"
               /\ abs(mode.requested_step.forward)
                      <= abs(PreviousStep.forward)
                         + last.context.parameters.max_forward_acceleration
               /\ abs(mode.requested_step.turn - PreviousStep.turn)
                      <= last.context.parameters.max_turn_acceleration

\* every condition holds at once, the parameters are zero and the request
\* is the largest one
C20_Witness ==
    /\ last.op = "walk"
    /\ Switched /\ CatchHolds /\ Timeouted
    /\ last.context.parameters.max_forward_acceleration = 0
    /\ last.context.parameters.max_turn_acceleration = 0
    /\ last.requested_step.forward = MaxForward
    /\ last.requested_step.turn = -MaxTurn
    /\ PreviousStep.forward > 0
    /\ mode.kind = "Walking"
    /\ mode.requested_step.forward = PreviousStep.forward

\* with a negative acceleration the transition can panic
C20_PanicWithNegativeParameters == Transitioned /\ mode = Panicked

----------------------------------------------------------------------------
(* C26 *)

\* C26: every transition from Walking to Catching (by stand, walk or kick)
\* hands over the step state of the interrupted Walking unchanged, plan and
\* elapsed time, and takes the support side of that step, not the opposite
\* one; the Catching mode has no requested_step field.
C26_CatchingTakesInterruptedStep ==
    (Transitioned /\ mode.kind = "Catching") =>
        /\ mode.step = last.before.step
        /\ mode.support_side = last.before.step.plan.support_side
        /\ DOMAIN mode = {"kind", "step", "support_side"}

C26_Witness ==
    /\ Transitioned
    /\ mode.kind = "Catching"
    /\ mode.step = last.before.step
    /\ mode.step.time_since_start > 0
    /\ mode.step.plan.end_feet # ZERO
    /\ last.before.requested_step # ZERO
    /\ mode.support_side = BeforeSide

----------------------------------------------------------------------------
(* C28 *)

\* C28: with non-negative acceleration parameters, the forward and the turn
\* of the smoothed step Walking::new returns each lie between the previous
\* smoothed value and the requested value, both included.
C28_SmoothedBetweenPreviousAndRequest ==
    NewCalled =>
        /\ mode.requested_step.forward >= Min(PreviousStep.forward, RawRequest.forward)
        /\ mode.requested_step.forward <= Max(PreviousStep.forward, RawRequest.forward)
        /\ mode.requested_step.turn >= Min(PreviousStep.turn, RawRequest.turn)
        /\ mode.requested_step.turn <= Max(PreviousStep.turn, RawRequest.turn)

C28_Witness ==
    /\ NewCalled
    /\ last.op = "walk"
    /\ mode.requested_step.forward > PreviousStep.forward
    /\ mode.requested_step.forward < RawRequest.forward
    /\ mode.requested_step.turn < PreviousStep.turn
    /\ mode.requested_step.turn > RawRequest.turn

----------------------------------------------------------------------------
(* One request repeated every cycle, transition and tick, from any Walking  *)
(* mode, in cycles without catch and without timeout: the balance is never *)
(* lost and the support switches before the step times out.                *)

\* the contexts of a cycle without catch and without timeout
CalmContexts ==
    { context \in Contexts :
          /\ ~should_catch(context, mode.step.plan.end_feet, mode.step.plan.support_side)
          /\ \/ is_support_switched(mode.step, context)
             \/ ~is_timeouted(mode.step, context.parameters) }

InitKickRepeated ==
    /\ NodesConstructed
    /\ parameters \in Parameters
    /\ mode \in AnyWalking
    /\ \E variant \in KickVariant, kicking_side \in Side, strength \in 1..MaxStrength :
           last = [op |-> "kick repeated", variant |-> variant,
                   kicking_side |-> kicking_side, strength |-> strength,
                   switches |-> 0]

\* one cycle under the repeated Kick request; Kicking ends the repetition
KickRepeated ==
    /\ last.op = "kick repeated"
    /\ mode.kind = "Walking"
    /\ \E context \in CalmContexts :
           /\ mode' = tick(kick(mode, context, last.variant, last.kicking_side,
                                last.strength), context)
           /\ last' = [last EXCEPT !.switches =
                           IF is_support_switched(mode.step, context) THEN @ + 1 ELSE @]
    /\ UNCHANGED <<parameters, nodes>>

NextKickRepeated == KickRepeated

SpecKickRepeated == InitKickRepeated /\ [][NextKickRepeated]_vars

----------------------------------------------------------------------------
(* C27 *)

\* C27: under one Kick(variant, side, strength) request repeated every cycle
\* from a Walking mode, without catch and without timeout, the Mode is
\* Kicking with that kick after the second support switch at the latest: a
\* mode still Walking has seen at most one support switch, its pre-step.
C27_KickingBySecondSwitch ==
    last.op = "kick repeated" =>
        /\ last.switches <= 2
        /\ (mode.kind = "Walking" => last.switches <= 1)
        /\ (last.switches = 2 =>
                mode = Kicking_new([parameters |-> parameters],
                                   KickState_new(last.variant, last.kicking_side,
                                                 last.strength),
                                   last.kicking_side))
        /\ mode.kind \in {"Walking", "Kicking"}

C27_Witness ==
    /\ last.op = "kick repeated"
    /\ last.switches = 2
    /\ mode.kind = "Kicking"
    /\ mode.kick.side = last.kicking_side

----------------------------------------------------------------------------
(* The same for one Walk request *)

\* the number of support switches after which the count stops
MaxSwitches == 1 + MaxForward + 2 * MaxTurn

InitWalkRepeated ==
    /\ NodesConstructed
    /\ parameters \in Parameters
    /\ mode \in AnyWalking
    /\ \E requested_step \in Requests :
           last = [op |-> "walk repeated", requested_step |-> requested_step,
                   switches |-> 0, reached |-> FALSE]

\* one cycle under the repeated Walk request; `reached` records that the
\* smoothed step of a step begun under the request has been equal to it
WalkRepeated ==
    /\ last.op = "walk repeated"
    /\ mode.kind = "Walking"
    /\ \E context \in CalmContexts :
           LET returned == walk(mode, context, last.requested_step)
               switched == is_support_switched(mode.step, context)
           IN  /\ mode' = tick(returned, context)
               /\ last' = [last EXCEPT
                              !.switches = IF switched /\ @ < MaxSwitches
                                           THEN @ + 1 ELSE @,
                              !.reached = \/ @
                                          \/ /\ switched
                                             /\ returned.kind = "Walking"
                                             /\ returned.requested_step
                                                    = last.requested_step]
    /\ UNCHANGED <<parameters, nodes>>

NextWalkRepeated == WalkRepeated

SpecWalkRepeated == InitWalkRepeated /\ [][NextWalkRepeated]_vars

----------------------------------------------------------------------------
(* C29 *)

\* the support switches a constant request needs at most: one to bring a
\* forward of the other sign to zero and one per unit of forward after it,
\* or one per unit of turn between the extreme turns
SwitchesToConverge == Max(1 + MaxForward, 2 * MaxTurn)

\* C29: under one Walk request R repeated over the support switches, with
\* strictly positive acceleration bounds and without catch and timeout, the
\* smoothed requested_step equals R after a bounded number of support
\* switches, and once it has been equal to R it stays equal to R.
C29_ConstantRequestReached ==
    last.op = "walk repeated" =>
        /\ mode.kind = "Walking"
        /\ (last.switches >= SwitchesToConverge =>
                mode.requested_step = last.requested_step)
        /\ (last.reached => mode.requested_step = last.requested_step)

C29_Witness ==
    /\ last.op = "walk repeated"
    /\ last.switches = SwitchesToConverge
    /\ last.reached
    /\ mode.requested_step = last.requested_step
    /\ mode.requested_step.forward = MaxForward
    /\ mode.requested_step.turn = -MaxTurn

----------------------------------------------------------------------------
(* C25 *)

\* C25: stand applied to a Mode in Stopping, in a cycle without catch
\* condition (Stopping has no step that could switch or time out), returns
\* the same Stopping state with the same support side, at every one of the
\* successive applications.
C25_StandKeepsStopping ==
    (last.op = "stopping stand" /\ ~last.context.balance_lost) =>
        /\ mode = last.before
        /\ mode.kind = "Stopping"
        /\ mode.support_side = last.before.support_side

C25_Witness ==
    /\ last.op = "stopping stand"
    /\ ~last.context.balance_lost
    /\ last.context.support_switched
    /\ mode.kind = "Stopping"
    /\ mode = last.before

----------------------------------------------------------------------------
(* The walking engine where a specification runs another component *)

WalkingConstructed ==
    /\ parameters = CHOOSE p \in Parameters : TRUE
    /\ mode = [kind |-> "Walking",
               step |-> StepState_new([support_side |-> "Left", end_feet |-> ZERO]),
               requested_step |-> ZERO]

----------------------------------------------------------------------------
(* The calls of a CurrentMinimizer, from its default value *)

InitMinimizer ==
    /\ WalkingConstructed
    /\ ToolsConstructed
    /\ \E joints \in JointSets : minimizer = CurrentMinimizer_default(joints)
    /\ jump_left = JumpLeft_new
    /\ motion_safe_exits = MotionSafeExits_default
    /\ own_database = Database_default
    /\ own_changed = 0
    /\ last = [op |-> "none"]

\* the last call of optimize panicked: the cycle is aborted
OptimizePanicked == last.op = "optimize" /\ last.outcome = "panicked"

Optimize ==
    /\ ~OptimizePanicked
    /\ \E currents \in [DOMAIN minimizer.position_offset -> 0..MaxCurrent],
          cycle_time \in CycleDurations,
          params \in CurrentMinimizerParameters(DOMAIN minimizer.position_offset) :
           LET positions == [joint \in DOMAIN minimizer.position_offset |-> joint]
               call == CurrentMinimizer_optimize(minimizer, currents, positions,
                                                 cycle_time, params)
           IN  /\ minimizer' = call.self
               /\ last' = [op |-> "optimize", before |-> minimizer,
                           currents |-> currents, positions |-> positions,
                           cycle_time |-> cycle_time, parameters |-> params,
                           after_reset |-> last.op = "reset",
                           outcome |-> call.outcome, returned |-> call.returned]
    /\ UNCHANGED <<tools, mode, parameters, jump_left, motion_safe_exits,
                   own_database, own_changed>>

Reset ==
    /\ ~OptimizePanicked
    /\ minimizer' = CurrentMinimizer_reset(minimizer)
    /\ last' = [op |-> "reset", before |-> minimizer]
    /\ UNCHANGED <<tools, mode, parameters, jump_left, motion_safe_exits,
                   own_database, own_changed>>

NextMinimizer == Optimize \/ Reset

SpecMinimizer == InitMinimizer /\ [][NextMinimizer]_vars

----------------------------------------------------------------------------
(* The call of optimize a state records *)

\* the sum of the squared offsets the call computed
SquaredSumBefore ==
    LET offset == last.before.position_offset
    IN  IF DOMAIN offset = {} THEN 0
        ELSE offset[1] * offset[1]
             + sum([joint \in DOMAIN offset \ {1} |-> offset[joint] * offset[joint]],
                   DOMAIN offset \ {1})

\* the call took the Optimizing arm of the match
OptimizingArm ==
    /\ last.op = "optimize"
    /\ last.before.state = "Optimizing"
    /\ SquaredSumBefore < last.parameters.reset_threshold

\* the call took the Resetting arm of the match
ResettingArm ==
    /\ last.op = "optimize"
    /\ \/ last.before.state = "Resetting"
       \/ SquaredSumBefore >= last.parameters.reset_threshold

----------------------------------------------------------------------------
(* C21 *)

\* C21: a call of optimize that takes the Optimizing arm with currents on no
\* joint panics: it returns no joint positions and applies no offset; and
\* optimize panics in no other case.
C21_EmptyCurrentsAbort ==
    last.op = "optimize" =>
        /\ (OptimizingArm /\ DOMAIN last.currents = {}) =>
               /\ last.outcome = "panicked"
               /\ last.returned = <<>>
               /\ minimizer.position_offset = last.before.position_offset
        /\ last.outcome = "panicked" =>
               (OptimizingArm /\ DOMAIN last.currents = {})

C21_Witness ==
    /\ OptimizingArm
    /\ DOMAIN last.currents = {}
    /\ last.outcome = "panicked"

----------------------------------------------------------------------------
(* C30 *)

\* v is x divided by d, to the unit
ShrunkBy(x, v, d) ==
    IF x >= 0
    THEN v >= 0 /\ d * v <= x /\ x < d * (v + 1)
    ELSE v <= 0 /\ d * (-v) <= -x /\ -x < d * (1 - v)

\* C30: a call of optimize whose squared offset sum is >= reset_threshold
\* applies no optimization increment; a call in the Resetting state, or
\* entering it, divides every offset by 1 + reset_speed / dt and stays
\* Resetting unless its squared sum is < reset_base_offset, and then it
\* switches to Optimizing and changes no offset.
C30_ResetHysteresis ==
    (ResettingArm /\ last.outcome = "returned") =>
        LET finished == SquaredSumBefore < last.parameters.reset_base_offset
            divisor == 1 + last.parameters.reset_speed \div last.cycle_time
        IN  /\ minimizer.minimum_reached = last.before.minimum_reached
            /\ finished =>
                   /\ minimizer.state = "Optimizing"
                   /\ minimizer.position_offset = last.before.position_offset
            /\ ~finished =>
                   /\ minimizer.state = "Resetting"
                   /\ \A joint \in DOMAIN minimizer.position_offset :
                          ShrunkBy(last.before.position_offset[joint],
                                   minimizer.position_offset[joint], divisor)

C30_Witness ==
    /\ ResettingArm
    /\ last.before.state = "Resetting"
    /\ SquaredSumBefore < last.parameters.reset_threshold
    /\ SquaredSumBefore >= last.parameters.reset_base_offset
    /\ minimizer.state = "Resetting"
    /\ minimizer.position_offset # last.before.position_offset

----------------------------------------------------------------------------
(* The cycles of the JumpLeft node, on any safe-exits table *)

InitJumpLeft ==
    /\ WalkingConstructed
    /\ ToolsConstructed
    /\ minimizer = CurrentMinimizer_default(Joint)
    /\ jump_left = JumpLeft_new
    /\ motion_safe_exits \in [MotionType -> BOOLEAN]
    /\ own_database = Database_default
    /\ own_changed = 0
    /\ last = [op |-> "none"]

JumpLeftCycle ==
    /\ \E context \in JumpLeftContexts :
           LET call == JumpLeft_cycle(jump_left, context)
           IN  /\ jump_left' = call.self
               /\ motion_safe_exits' = call.motion_safe_exits
               /\ last' = [op |-> "jump left cycle", before |-> jump_left,
                           context |-> context, returned |-> call.returned]
    /\ UNCHANGED <<tools, mode, parameters, minimizer, own_database, own_changed>>

NextJumpLeft == JumpLeftCycle

SpecJumpLeft == InitJumpLeft /\ [][NextJumpLeft]_vars

----------------------------------------------------------------------------
(* C22 *)

\* C22: after a cycle of JumpLeft the safe-exits entry of MotionType::JumpLeft
\* is TRUE exactly if the interpolator state is not running; the state has
\* been reset if the selected motion is not JumpLeft and has been advanced
\* once by the last cycle duration if it is; every other entry of the table
\* is the one the caller handed in.
C22_SafeExitFollowsInterpolator ==
    last.op = "jump left cycle" =>
        /\ motion_safe_exits["JumpLeft"] = (jump_left.state.kind # "Running")
        /\ last.context.motion_selection # "JumpLeft" =>
               jump_left.state = InterpolatorState_INITIAL
        /\ last.context.motion_selection = "JumpLeft" =>
               jump_left.state = advance_state(last.before.state,
                                               last.context.cycle_time,
                                               last.context.condition_input)
        /\ \A motion \in MotionType \ {"JumpLeft"} :
               motion_safe_exits[motion] = last.context.motion_safe_exits[motion]

C22_Witness ==
    /\ last.op = "jump left cycle"
    /\ last.context.motion_selection = "JumpLeft"
    /\ last.before.state.kind = "Running"
    /\ last.before.state.time_since_start > 0
    /\ jump_left.state.kind = "Finished"
    /\ motion_safe_exits["JumpLeft"]
    /\ ~last.context.motion_safe_exits["JumpLeft"]
    /\ \E motion \in MotionType \ {"JumpLeft"} : motion_safe_exits[motion]

----------------------------------------------------------------------------
(* The cycles of the BehaviorCycler, from the default Database *)

InitCycler ==
    /\ WalkingConstructed
    /\ ToolsConstructed
    /\ minimizer = CurrentMinimizer_default(Joint)
    /\ jump_left = JumpLeft_new
    /\ motion_safe_exits = MotionSafeExits_default
    /\ own_database = Database_default
    /\ own_changed = 0
    /\ last = [op |-> "none"]

\* the notifications a cycle issued
notifications(trace) ==
    Cardinality({i \in 1..Len(trace) : trace[i].event = "notify_one"})

\* one cycle on the database as the simulator hands it over: the next cycle
\* time and the optional inputs
Cycle ==
    /\ own_database.cycle_time < MaxCycles
    /\ ~(last.op = "cycle" /\ last.returned = "panicked")
    /\ \E game_controller_state \in BOOLEAN, filtered_game_state \in BOOLEAN,
          robot_to_field \in BOOLEAN, ball_state \in BOOLEAN,
          results \in NodeResults :
           LET database == [own_database EXCEPT
                               !.cycle_time = @ + 1,
                               !.game_controller_state = game_controller_state,
                               !.filtered_game_state = filtered_game_state,
                               !.robot_to_field = robot_to_field]
               call == BehaviorCycler_cycle(database, results, ball_state)
           IN  /\ own_database' = call.own_database
               /\ own_changed' = own_changed + notifications(call.trace)
               /\ last' = [op |-> "cycle", before |-> database,
                           own_changed |-> own_changed, results |-> results,
                           trace |-> call.trace, returned |-> call.returned,
                           error |-> call.error]
    /\ UNCHANGED <<tools, mode, parameters, minimizer, jump_left, motion_safe_exits>>

NextCycler == Cycle

SpecCycler == InitCycler /\ [][NextCycler]_vars

----------------------------------------------------------------------------
(* C23 *)

\* the positions of the trace at which own_changed.notify_one was called
NotifyPositions ==
    {i \in 1..Len(last.trace) : last.trace[i].event = "notify_one"}

\* the position of a node in the order of the blocks
Position(node) == CHOOSE i \in 1..Len(Nodes) : Nodes[i] = node

\* C23: a cycle that returns Ok has issued exactly one notification, as its
\* last step, after the outputs of every node have been written to the
\* database in that cycle; a cycle in which a node fails returns that error
\* at once: the failing node's cycle is its last step, no later node has
\* run or written and no notification has been issued.
C23_NotifyOnceAfterAllWritten ==
    last.op = "cycle" =>
        /\ last.returned \in {"Ok", "Err", "panicked"}
        /\ own_changed = last.own_changed + Cardinality(NotifyPositions)
        /\ last.returned = "Ok" =>
               /\ NotifyPositions = {Len(last.trace)}
               /\ \A node \in NodeNames :
                      /\ \E i \in 1..(Len(last.trace) - 1) :
                             last.trace[i] = [event |-> "write", node |-> node]
                      /\ own_database.main_outputs[node].cycle = own_database.cycle_time
        /\ last.returned # "Ok" => NotifyPositions = {}
        /\ last.returned = "Err" =>
               /\ last.results[last.error] = "Err"
               /\ last.trace[Len(last.trace)] = [event |-> "cycle", node |-> last.error]
               /\ \A node \in NodeNames :
                      Position(node) >= Position(last.error) =>
                          own_database.main_outputs[node]
                              = last.before.main_outputs[node]
        /\ \A i \in 1..Len(last.trace) :
               (last.trace[i].event = "cycle" /\ last.results[last.trace[i].node] = "Err")
                   => (i = Len(last.trace) /\ last.returned = "Err")

C23_Witness ==
    /\ last.op = "cycle"
    /\ last.returned = "Ok"
    /\ NotifyPositions = {Len(last.trace)}
    /\ own_changed = 2
    /\ \A node \in NodeNames : ~own_database.main_outputs[node].default

----------------------------------------------------------------------------
(* C31 *)

\* the sum of the squared offsets after the call
SquaredSumAfter ==
    LET offset == minimizer.position_offset
    IN  IF DOMAIN offset = {} THEN 0
        ELSE offset[1] * offset[1]
             + sum([joint \in DOMAIN offset \ {1} |-> offset[joint] * offset[joint]],
                   DOMAIN offset \ {1})

\* the call was made in state Resetting with reset_speed > 0,
\* reset_base_offset > 0 and a positive cycle duration
ResettingCall ==
    /\ ResettingArm
    /\ last.outcome = "returned"
    /\ last.parameters.reset_speed > 0
    /\ last.parameters.reset_base_offset > 0
    /\ last.cycle_time > 0

\* the quotient reset_speed / dt as the call computed it
ResetRatio == last.parameters.reset_speed \div last.cycle_time

----------------------------------------------------------------------------
(* C32 *)

\* joint has the maximal current of the call
Maximal(joint) ==
    \A other \in DOMAIN last.currents : last.currents[other] <= last.currents[joint]

\* C32: a call that takes the Optimizing arm changes the offset of no joint
\* if the hysteresis test says that the minimum is reached, and otherwise
\* the offset of one joint with the maximal current, by optimization_sign *
\* optimization_speed / dt; the other offsets are unchanged and the call
\* returns the measured positions plus the offsets after the call.
C32_OptimizingMovesOneJoint ==
    (OptimizingArm /\ last.outcome = "returned") =>
        /\ minimizer.state = "Optimizing"
        /\ minimizer.minimum_reached =>
               minimizer.position_offset = last.before.position_offset
        /\ ~minimizer.minimum_reached =>
               \E joint \in DOMAIN last.currents :
                   /\ Maximal(joint)
                   /\ minimizer.position_offset[joint] * last.cycle_time
                          = last.before.position_offset[joint] * last.cycle_time
                            + last.parameters.optimization_sign[joint]
                                  * last.parameters.optimization_speed
                   /\ \A other \in DOMAIN last.currents \ {joint} :
                          minimizer.position_offset[other]
                              = last.before.position_offset[other]
        /\ \A joint \in DOMAIN last.positions :
               last.returned[joint]
                   = last.positions[joint] + minimizer.position_offset[joint]

C32_Witness ==
    /\ OptimizingArm
    /\ last.outcome = "returned"
    /\ ~minimizer.minimum_reached
    /\ last.currents[1] > last.currents[2]
    /\ minimizer.position_offset[1] # last.before.position_offset[1]
    /\ minimizer.position_offset[2] = last.before.position_offset[2]
    /\ minimizer.position_offset[2] # 0
    /\ last.returned[2] # last.positions[2]

----------------------------------------------------------------------------
(* C33 *)

\* C33: reset sets the offset of every joint to 0 and leaves the state, the
\* minimum_reached flag and the parameters as they were; the optimize call
\* that follows a reset made in state Resetting applies no increment: the
\* offsets are 0 after it and minimum_reached is unchanged.
C33_ResetClearsOffsetsOnly ==
    /\ last.op = "reset" =>
           /\ \A joint \in DOMAIN minimizer.position_offset :
                  minimizer.position_offset[joint] = 0
           /\ DOMAIN minimizer.position_offset = DOMAIN last.before.position_offset
           /\ minimizer.state = last.before.state
           /\ minimizer.minimum_reached = last.before.minimum_reached
           /\ minimizer.parameters = last.before.parameters
    /\ (last.op = "optimize" /\ last.after_reset /\ last.before.state = "Resetting") =>
           /\ last.outcome = "returned"
           /\ \A joint \in DOMAIN minimizer.position_offset :
                  minimizer.position_offset[joint] = 0
           /\ minimizer.minimum_reached = last.before.minimum_reached

C33_Witness ==
    /\ last.op = "optimize"
    /\ last.after_reset
    /\ last.before.state = "Resetting"
    /\ last.before.position_offset = [joint \in Joint |-> 0]
    /\ last.currents[1] = MaxCurrent
    /\ minimizer.state = "Optimizing"
    /\ minimizer.position_offset = [joint \in Joint |-> 0]

----------------------------------------------------------------------------
(* The ball interception on its own: one call of execute *)

InitIntercept ==
    /\ WalkingConstructed
    /\ NodesConstructed
    /\ last = [op |-> "none"]

Execute ==
    /\ last.op = "none"
    /\ \E world_state \in WorldState, params \in InterceptBallParameters,
          walk_speed \in WalkSpeed :
           /\ motion_command' = execute(world_state, params, walk_speed)
           /\ last' = [op |-> "execute", world_state |-> world_state,
                       parameters |-> params, walk_speed |-> walk_speed]
    /\ UNCHANGED <<mode, parameters, minimizer, jump_left, motion_safe_exits,
                   own_database, own_changed, calibration, panel,
                   camera_matrix>>

NextIntercept == Execute

SpecIntercept == InitIntercept /\ [][NextIntercept]_vars

----------------------------------------------------------------------------
(* C36 *)

\* the game controller permits an interception: no penalty shootout, no
\* penalty kick, and Playing with a free ball or no game controller state
InterceptionPermitted ==
    LET state == last.world_state.filtered_game_controller_state
    IN  \/ state = None
        \/ /\ state.kind = "Some"
           /\ state.value.game_phase # "PenaltyShootout"
           /\ state.value.sub_state # Some("PenaltyKick")
           /\ state.value.game_state.kind = "Playing"
           /\ state.value.game_state.ball_is_free

\* the distance of the origin from the line of the ball is at most
\* maximum_intercept_distance
WithinInterceptDistance ==
    LET ball == last.world_state.ball.value
        position == ball.ball_in_ground
        velocity == ball.ball_in_ground_velocity
        cross == position.x * velocity.y - position.y * velocity.x
        bound == last.parameters.maximum_intercept_distance
    IN  cross * cross <= bound * bound * dot(velocity, velocity)

\* point, a quotient of numerators by a denominator, is the point of the
\* line of the ball that is closest to the origin: it is on the line and
\* the line is perpendicular to it
IsInterceptionPoint(point) ==
    LET ball == last.world_state.ball.value
        position == ball.ball_in_ground
        velocity == ball.ball_in_ground_velocity
    IN  /\ point.denominator > 0
        /\ dot(point, velocity) = 0
        /\ (point.x - position.x * point.denominator) * velocity.y
               = (point.y - position.y * point.denominator) * velocity.x

\* C36: execute returns a command exactly when the game controller permits
\* an interception, the ball and ground_to_field are known, the ball is an
\* interception candidate and the interception point is within
\* maximum_intercept_distance; the command is a Walk whose path is the one
\* line segment from the origin to the interception point.
C36_WalkOnlyToInterceptionPoint ==
    last.op = "execute" =>
        /\ motion_command.kind = "Some" <=>
               /\ InterceptionPermitted
               /\ last.world_state.ball.kind = "Some"
               /\ last.world_state.robot.ground_to_field.kind = "Some"
               /\ ball_is_interception_candidate(
                      last.world_state.ball.value,
                      last.world_state.robot.ground_to_field.value,
                      last.parameters)
               /\ WithinInterceptDistance
        /\ motion_command.kind = "None" => motion_command = None
        /\ motion_command.kind = "Some" =>
               /\ motion_command.value.kind = "Walk"
               /\ Len(motion_command.value.path) = 1
               /\ motion_command.value.path[1].kind = "LineSegment"
               /\ motion_command.value.path[1].start = origin
               /\ IsInterceptionPoint(motion_command.value.path[1].end)

C36_Witness ==
    /\ last.op = "execute"
    /\ last.world_state.filtered_game_controller_state.kind = "Some"
    /\ motion_command.kind = "Some"
    /\ motion_command.value.kind = "Walk"
    /\ motion_command.value.path[1].end.x # 0
    /\ motion_command.value.path[1].end.y # 0

----------------------------------------------------------------------------
(* The calibration corrections on their own: written and read back *)

InitCalibration ==
    /\ WalkingConstructed
    /\ minimizer = CurrentMinimizer_default(Joint)
    /\ jump_left = JumpLeft_new
    /\ motion_safe_exits = MotionSafeExits_default
    /\ own_database = Database_default
    /\ own_changed = 0
    /\ motion_command = None
    /\ panel = SemiAutomaticCameraCalibrationPanel_new
    /\ CameraMatrixConstructed
    /\ \E self \in {SemiAutomaticCalibrationContext_new,
                     SemiAutomaticCalibrationPanel_new} :
           calibration = [self |-> self,
                          values |-> [path \in CorrectionPaths |-> None]]
    /\ last = [op |-> "none"]

ApplyCorrections ==
    /\ \E corrections_to_apply \in Corrections :
           /\ calibration' =
                  [calibration EXCEPT
                       !.values = apply_corrections(@, corrections_to_apply)]
           /\ last' = [op |-> "apply_corrections",
                       corrections |-> corrections_to_apply]
    /\ UNCHANGED <<mode, parameters, minimizer, jump_left, motion_safe_exits,
                   own_database, own_changed, motion_command, panel,
                   camera_matrix>>

ReadCorrections ==
    /\ last' = [op |-> "corrections",
                written |-> IF last.op = "apply_corrections"
                            THEN Some(last.corrections) ELSE None,
                returned |-> corrections(calibration.self, calibration.values)]
    /\ UNCHANGED <<mode, parameters, minimizer, jump_left, motion_safe_exits,
                   own_database, own_changed, motion_command, calibration, panel,
                   camera_matrix>>

NextCalibration == ApplyCorrections \/ ReadCorrections

SpecCalibration == InitCalibration /\ [][NextCalibration]_vars

----------------------------------------------------------------------------
(* C34 *)

\* C34: corrections() called after apply_corrections has written the
\* corrections C returns C.
C34_CorrectionsRoundTrip ==
    (last.op = "corrections" /\ last.written.kind = "Some") =>
        /\ last.returned.kind = "Ok"
        /\ last.returned.value = last.written.value

----------------------------------------------------------------------------
(* The line drawing on its own: one frame of a panel after the other *)

InitPanel ==
    /\ WalkingConstructed
    /\ minimizer = CurrentMinimizer_default(Joint)
    /\ jump_left = JumpLeft_new
    /\ motion_safe_exits = MotionSafeExits_default
    /\ own_database = Database_default
    /\ own_changed = 0
    /\ motion_command = None
    /\ calibration = [self |-> SemiAutomaticCalibrationContext_new,
                      values |-> [path \in CorrectionPaths |-> None]]
    /\ panel \in {SemiAutomaticCameraCalibrationPanel_new,
                   ScribbleCalibrationPanel_new}
    /\ CameraMatrixConstructed
    /\ last = [op |-> "none"]

\* the panel is the scribble panel
IsScribble == "lines" \in DOMAIN panel

\* one frame: the pointer, if it hovers over the image, and the primary button
UiContent ==
    /\ \E primary_clicked \in BOOLEAN,
          pointer_position \in {None} \cup {Some(pixel) : pixel \in Pixel} :
           /\ IF IsScribble
              THEN /\ \/ Len(panel.lines) < MaxDrawnLines
                      \/ panel.state = Idle
                      \/ ~primary_clicked
                      \/ pointer_position = None
                   /\ panel' = ScribbleCalibrationPanel_ui_content(
                                    panel, primary_clicked, pointer_position)
              ELSE /\ \/ Len(panel.drawn_lines) < MaxDrawnLines
                      \/ panel.user_state = Idle
                      \/ ~primary_clicked
                      \/ pointer_position = None
                   /\ panel' = SemiAutomaticCameraCalibrationPanel_ui_content(
                                    panel, primary_clicked, pointer_position)
           /\ last' = [op |-> "ui_content", before |-> panel,
                       primary_clicked |-> primary_clicked,
                       pointer_position |-> pointer_position]
    /\ UNCHANGED <<mode, parameters, minimizer, jump_left, motion_safe_exits,
                   own_database, own_changed, motion_command, calibration,
                   camera_matrix>>

\* the buttons "save measurements" and "Clear" of the semi-automatic panel,
\* which empty the lines and leave the user state as it is
ClearDrawnLines ==
    /\ ~IsScribble
    /\ panel' = [panel EXCEPT !.drawn_lines = <<>>]
    /\ last' = [op |-> "clear", before |-> panel]
    /\ UNCHANGED <<mode, parameters, minimizer, jump_left, motion_safe_exits,
                   own_database, own_changed, motion_command, calibration,
                   camera_matrix>>

NextPanel == UiContent \/ ClearDrawnLines

SpecPanel == InitPanel /\ [][NextPanel]_vars

----------------------------------------------------------------------------
(* C37 *)

\* the user state and the lines of a panel, and the segment of a line
UserStateOf(a_panel) ==
    IF "lines" \in DOMAIN a_panel THEN a_panel.state ELSE a_panel.user_state
LinesOf(a_panel) ==
    IF "lines" \in DOMAIN a_panel THEN a_panel.lines ELSE a_panel.drawn_lines
SegmentOf(line) == IF IsScribble THEN line ELSE line.line_segment

\* the frame was a primary click with a pointer position
Clicked == last.primary_clicked /\ last.pointer_position.kind = "Some"

\* the line at index has an endpoint within KEYPOINT_RADIUS of the pointer
NearEndpoint(index) ==
    LET segment == SegmentOf(LinesOf(last.before)[index])
        pointer == last.pointer_position.value
    IN  \/ within_keypoint_radius(segment[1], pointer)
        \/ within_keypoint_radius(segment[2], pointer)

----------------------------------------------------------------------------
(* The camera matrix on its own: constructed, corrected, assigned to and   *)
(* memoized again                                                          *)

InitCameraMatrix ==
    /\ WalkingConstructed
    /\ minimizer = CurrentMinimizer_default(Joint)
    /\ jump_left = JumpLeft_new
    /\ motion_safe_exits = MotionSafeExits_default
    /\ own_database = Database_default
    /\ own_changed = 0
    /\ motion_command = None
    /\ calibration = [self |-> SemiAutomaticCalibrationContext_new,
                      values |-> [path \in CorrectionPaths |-> None]]
    /\ panel = SemiAutomaticCameraCalibrationPanel_new
    /\ \E image_size \in {[x |-> 2, y |-> 1], [x |-> 4, y |-> 3]},
          ground_to_robot \in Isometry3, robot_to_head \in Isometry3,
          head_to_camera \in Isometry3 :
           camera_matrix =
               from_normalized_focal_and_center(
                   [x |-> 1, y |-> 1], [x |-> 1, y |-> 2], image_size,
                   ground_to_robot, robot_to_head, head_to_camera)
    /\ last = [op |-> "from_normalized_focal_and_center"]

ToCorrected ==
    /\ \E correction_in_robot \in FramedRotation3,
          correction_in_camera \in FramedRotation3 :
           camera_matrix' =
               to_corrected(camera_matrix, correction_in_robot, correction_in_camera)
    /\ last' = [op |-> "to_corrected"]
    /\ UNCHANGED <<mode, parameters, minimizer, jump_left, motion_safe_exits,
                   own_database, own_changed, motion_command, calibration, panel>>

ComputeMemoized ==
    /\ camera_matrix' = compute_memoized(camera_matrix)
    /\ last' = [op |-> "compute_memoized"]
    /\ UNCHANGED <<mode, parameters, minimizer, jump_left, motion_safe_exits,
                   own_database, own_changed, motion_command, calibration, panel>>

\* an assignment to the public field ground_to_robot, which leaves the
\* memoized fields as they were
AssignGroundToRobot ==
    /\ \E ground_to_robot \in Isometry3 :
           camera_matrix' = [camera_matrix EXCEPT !.ground_to_robot = ground_to_robot]
    /\ last' = [op |-> "assign"]
    /\ UNCHANGED <<mode, parameters, minimizer, jump_left, motion_safe_exits,
                   own_database, own_changed, motion_command, calibration, panel>>

NextCameraMatrix == ToCorrected \/ ComputeMemoized \/ AssignGroundToRobot

SpecCameraMatrix == InitCameraMatrix /\ [][NextCameraMatrix]_vars

----------------------------------------------------------------------------
(* C35 *)

\* ground_to_camera transforms every point as ground_to_robot, then
\* robot_to_head, then head_to_camera do, and the two projections are made
\* from it and the intrinsics
MemoizedConsistent ==
    /\ \A point \in 1..3 :
           camera_matrix.ground_to_camera[point]
               = camera_matrix.head_to_camera[
                     camera_matrix.robot_to_head[camera_matrix.ground_to_robot[point]]]
    /\ camera_matrix.ground_to_pixel.extrinsic = camera_matrix.ground_to_camera
    /\ camera_matrix.ground_to_pixel.intrinsic = camera_matrix.intrinsics
    /\ camera_matrix.pixel_to_ground.projection.extrinsic
           = camera_matrix.ground_to_camera
    /\ camera_matrix.pixel_to_ground.projection.intrinsic = camera_matrix.intrinsics

\* C35: the camera matrix returned by from_normalized_focal_and_center, by
\* to_corrected or left by compute_memoized has consistent memoized fields:
\* ground_to_camera is head_to_camera * robot_to_head * ground_to_robot of
\* the same matrix, and ground_to_pixel and pixel_to_ground are made from
\* that ground_to_camera and the matrix's intrinsics.
C35_MemoizedFieldsConsistent ==
    last.op \in {"from_normalized_focal_and_center", "to_corrected",
                 "compute_memoized"}
        => MemoizedConsistent

C35_Witness ==
    /\ last.op = "to_corrected"
    /\ MemoizedConsistent
    /\ camera_matrix.ground_to_camera
           # compose(compose(camera_matrix.ground_to_robot, camera_matrix.robot_to_head),
                     camera_matrix.head_to_camera)
    /\ camera_matrix.ground_to_camera # identity

====
